---------------------------- MODULE Spec2Model ----------------------------
(***************************************************************************)
(* State-machine model of MessageAggregator                                *)
(* (src/src/utils/message-aggregator.ts): the pending-entry map, the       *)
(* per-entry timers, the two claim operations, supersession, cleanup, and  *)
(* the suspended handleText / handleImage / handleFile calls, under the    *)
(* single-threaded run-to-completion scheduling of the JavaScript event    *)
(* loop (one action = one scheduler turn or one promise continuation).     *)
(*                                                                         *)
(* The second part models the services around it: the IPC framing          *)
(* (src/src/ipc/protocol.ts), one connection of the IPC server             *)
(* (src/src/ipc/matrix-server.ts), AgentIPCClient.sendMessage              *)
(* (src/src/ipc/agent-client.ts), withRetry (src/src/matrix/client.ts)     *)
(* and the authorization checks (src/src/utils/auth.ts).  Each has its own *)
(* variables and its own specification; the variables of the components a  *)
(* specification does not run stay at their idle values.                   *)
(***************************************************************************)
EXTENDS Naturals, Integers, Sequences, FiniteSets, TLC

\* Number of Matrix events (text, image or file) dispatched to the aggregator in one run.
MaxEvents == 3

VARIABLES
  pending,     \* this.pending: key -> reference to a PendingEntry (the index of the text that created it)
  entryState,  \* PendingEntry.state of every entry object ever created ("none" before creation)
  texts,       \* arguments (roomId, event) of each handleText call made so far
  timer,       \* the setTimeout handle of each handleText call
  hpc,         \* position of each handleText call
  spc,         \* fire-and-forget promise of a superseded entry's onTextOnly
  mpc,         \* position of each handleImage / handleFile call
  log,         \* per key: the caller-supplied callbacks invoked by calls for that key, in order
  wins         \* per entry: the finalizations that succeeded on it, in order

\* The services around the aggregator, each a record of the fields and
\* locals of one component.
VARIABLES
  protocol,    \* protocol.ts, encodeMessage and decodeMessage applied to one message:
               \*   message        the message given to encodeMessage
               \*   tail           the bytes that follow the frame in the buffer
               \*   decoded        decodeMessage on the frame followed by tail: argument and outcome
               \*   prefixDecoded  decodeMessage on a proper prefix of the frame: argument and outcome
  server,      \* matrix-server.ts, one connection of MatrixIPCServer:
               \*   requests       the messages whose frames the peer writes, in order
               \*   unread         the bytes of conn.readable that no chunk has delivered yet
               \*   buffer         handleConnection's buffer
               \*   handled        the messages decoded by the loop, in order, each with what became of it
               \*   written        the frames written to conn.writable, in order
               \*   pc             position of handleConnection
  client,      \* agent-client.ts, one call of AgentIPCClient.sendMessage:
               \*   maxRetries     this.maxRetries
               \*   attempt        the loop variable
               \*   lastError      the local lastError
               \*   connections    the outcomes of the sendMessageOnce calls made, in order
               \*   sleeps         the delays slept, in order
               \*   result         what sendMessage returned
               \*   pc             position of sendMessage
  retry,       \* matrix/client.ts, one call of withRetry:
               \*   attempt        the loop variable
               \*   invocations    the outcomes of the operation() calls made, in order
               \*   waits          the delays waited, in order
               \*   result         what withRetry returned or threw
               \*   pc             position of withRetry
  auth         \* auth.ts, the two authorization checks applied to one input:
               \*   params         sender, bot user, authorized user and member count
               \*   result         what shouldProcessMessage and validateAuthorization returned

aggregatorVars == <<pending, entryState, texts, timer, hpc, spc, mpc, log, wins>>
serviceVars == <<protocol, server, client, retry, auth>>

vars == <<aggregatorVars, serviceVars>>

\* A call that has not been made.
NotCalled == [buffer |-> << >>, outcome |-> [returned |-> "not called"]]

\* JSON values: null, and objects whose members are strings.  A string is
\* the sequence of its code points, an object the sequence of its
\* <<key, value>> members in insertion order.
JsonNull == [json |-> "null"]
Object(members) == [json |-> "object", members |-> members]

\* A component that the specification does not run.
Idle == [pc |-> "idle"]

ProtocolIdle == protocol = Idle
ServerIdle == server = Idle
ClientIdle == client = Idle
RetryIdle == retry = Idle
AuthIdle == auth = Idle

NoError == [name |-> "none"]
NoResult == [kind |-> "none"]

WAITING_FOR_MEDIA == "WAITING_FOR_MEDIA"
COMBINED_WITH_MEDIA == "COMBINED_WITH_MEDIA"
PROCESSED_AS_TEXT == "PROCESSED_AS_TEXT"

TextIds == 1..MaxEvents
MediaIds == 1..MaxEvents

\* (roomId, senderId) pairs that events are drawn from.  The first two are
\* different pairs whose identifiers contain ':'.
Pairs == { <<"!a:b", "@u">>, <<"!a", "b:@u">>, <<"!c", "@u">> }
\* Media events come from any of them.  Text event m is one of: from the
\* first pair with a body of its own, from the first pair with an empty
\* body, from the third pair with a body of its own.
TextInputs(m) ==
  { <<"!a:b", "@u", "body" \o ToString(m)>>,
    <<"!a:b", "@u", "">>,
    <<"!c", "@u", "body" \o ToString(m)>> }

getKey(roomId, senderId) == roomId \o ":" \o senderId

Keys == { getKey(p[1], p[2]) : p \in Pairs }

\* An optional value (JavaScript undefined or a value): <<>> or <<v>>.
Undefined == << >>
Some(v) == <<v>>

TextEventId(m) == "$t" \o ToString(m)
MediaEventId(j) == "$m" \o ToString(j)
EventIds == { TextEventId(m) : m \in TextIds }

NoCall == [roomId |-> "", event |-> [event_id |-> "", sender |-> "", body |-> ""]]

EmptyMap == [k \in {} |-> 0]
RemoveKey(map, key) == [k \in (DOMAIN map) \ {key} |-> map[k]]
SetKey(map, key, v) == [k \in (DOMAIN map) \cup {key} |-> IF k = key THEN v ELSE map[k]]

\* resolve(v) of the promise handleText call m awaits: settles it once.
ResolveCall(h, m, v) ==
  IF h[m] = "suspended"
  THEN [h EXCEPT ![m] = IF v THEN "resumedTrue" ELSE "resumedFalse"]
  ELSE h

\* clearTimeout(handle): an armed timer is cancelled, any other is left as it is.
ClearTimeout(t, m) == IF t[m] = "armed" THEN [t EXCEPT ![m] = "cleared"] ELSE t

Won(w, e, how) == [w EXCEPT ![e] = Append(@, how)]

TextOnlyCall(roomId, event) ==
  [kind |-> "textOnly", roomId |-> roomId, event |-> event, text |-> Undefined]
MediaCall(roomId, event, text) ==
  [kind |-> "media", roomId |-> roomId, event |-> event, text |-> text]

Logged(l, key, call) == [l EXCEPT ![key] = Append(@, call)]

\* { success: false }
NotClaimed == [success |-> FALSE, event |-> Undefined, textContent |-> Undefined]

AggregatorInit ==
  /\ pending = EmptyMap
  /\ entryState = [m \in TextIds |-> "none"]
  /\ texts = [m \in TextIds |-> NoCall]
  /\ timer = [m \in TextIds |-> "unset"]
  /\ hpc = [m \in TextIds |-> "idle"]
  /\ spc = [m \in TextIds |-> "none"]
  /\ mpc = [j \in MediaIds |-> "idle"]
  /\ log = [k \in Keys |-> << >>]
  /\ wins = [m \in TextIds |-> << >>]

Init ==
  /\ AggregatorInit
  /\ ProtocolIdle /\ ServerIdle /\ ClientIdle /\ RetryIdle /\ AuthIdle

(***************************************************************************)
(* The claim operations.  Each is the method's effect on the aggregator    *)
(* state it may touch, together with the ClaimResult it returns.           *)
(***************************************************************************)
Unclaimed ==
  [result |-> NotClaimed,
   pending |-> pending, entryState |-> entryState, timer |-> timer,
   hpc |-> hpc, wins |-> wins]

\* Mutant: a successful media claim hands out the text but neither marks
\* the entry nor removes it from the map.
claimForMedia_leavesEntry(key) ==
  IF key \notin DOMAIN pending
  THEN Unclaimed
  ELSE LET entry == pending[key] IN
    [result |-> [success |-> TRUE,
                 event |-> Some(texts[entry].event),
                 textContent |-> Some(texts[entry].event.body)],
     entryState |-> entryState,
     timer |-> ClearTimeout(timer, entry),
     pending |-> pending,
     hpc |-> ResolveCall(hpc, entry, FALSE),
     wins |-> Won(wins, entry, "media")]

\* Mutant: the entry's resolve() releases the handleText caller with true,
\* so the caller goes on to onTextOnly although media claimed the text.
claimForMedia_resolvesTrue(key) ==
  IF key \notin DOMAIN pending
  THEN Unclaimed
  ELSE LET entry == pending[key] IN
    IF entryState[entry] # WAITING_FOR_MEDIA
    THEN Unclaimed
    ELSE [result |-> [success |-> TRUE,
                      event |-> Some(texts[entry].event),
                      textContent |-> Some(texts[entry].event.body)],
          entryState |-> [entryState EXCEPT ![entry] = COMBINED_WITH_MEDIA],
          timer |-> ClearTimeout(timer, entry),
          pending |-> RemoveKey(pending, key),
          hpc |-> ResolveCall(hpc, entry, TRUE),
          wins |-> Won(wins, entry, "media")]

\* Mutant: when the key has no entry, the claim falls back to some other
\* pending entry instead of failing.
claimForMedia_fallsBack(key) ==
  IF pending = EmptyMap
  THEN Unclaimed
  ELSE LET k == IF key \in DOMAIN pending THEN key ELSE CHOOSE x \in DOMAIN pending : TRUE
           entry == pending[k] IN
    IF entryState[entry] # WAITING_FOR_MEDIA
    THEN Unclaimed
    ELSE [result |-> [success |-> TRUE,
                      event |-> Some(texts[entry].event),
                      textContent |-> Some(texts[entry].event.body)],
          entryState |-> [entryState EXCEPT ![entry] = COMBINED_WITH_MEDIA],
          timer |-> ClearTimeout(timer, entry),
          pending |-> RemoveKey(pending, k),
          hpc |-> ResolveCall(hpc, entry, FALSE),
          wins |-> Won(wins, entry, "media")]

\* Mutant: a successful media claim returns the body of the first text that
\* was buffered for the key, not the body of the entry it claims.
claimForMedia_firstText(key) ==
  IF key \notin DOMAIN pending
  THEN Unclaimed
  ELSE LET entry == pending[key]
           first == CHOOSE m \in TextIds :
                      /\ getKey(texts[m].roomId, texts[m].event.sender) = key
                      /\ \A n \in TextIds :
                           getKey(texts[n].roomId, texts[n].event.sender) = key => m <= n
       IN
    IF entryState[entry] # WAITING_FOR_MEDIA
    THEN Unclaimed
    ELSE [result |-> [success |-> TRUE,
                      event |-> Some(texts[first].event),
                      textContent |-> Some(texts[first].event.body)],
          entryState |-> [entryState EXCEPT ![entry] = COMBINED_WITH_MEDIA],
          timer |-> ClearTimeout(timer, entry),
          pending |-> RemoveKey(pending, key),
          hpc |-> ResolveCall(hpc, entry, FALSE),
          wins |-> Won(wins, entry, "media")]

\* Mutant: a successful media claim removes the entry without calling its
\* resolve(), so the handleText caller is not released.
claimForMedia_withoutResolve(key) ==
  IF key \notin DOMAIN pending
  THEN Unclaimed
  ELSE LET entry == pending[key] IN
    IF entryState[entry] # WAITING_FOR_MEDIA
    THEN Unclaimed
    ELSE [result |-> [success |-> TRUE,
                      event |-> Some(texts[entry].event),
                      textContent |-> Some(texts[entry].event.body)],
          entryState |-> [entryState EXCEPT ![entry] = COMBINED_WITH_MEDIA],
          timer |-> ClearTimeout(timer, entry),
          pending |-> RemoveKey(pending, key),
          hpc |-> hpc,
          wins |-> Won(wins, entry, "media")]

\* Mutant: a successful media claim marks the entry COMBINED_WITH_MEDIA and
\* releases its caller but does not delete the entry from the map.
claimForMedia_keepsEntry(key) ==
  IF key \notin DOMAIN pending
  THEN Unclaimed
  ELSE LET entry == pending[key] IN
    IF entryState[entry] # WAITING_FOR_MEDIA
    THEN Unclaimed
    ELSE [result |-> [success |-> TRUE,
                      event |-> Some(texts[entry].event),
                      textContent |-> Some(texts[entry].event.body)],
          entryState |-> [entryState EXCEPT ![entry] = COMBINED_WITH_MEDIA],
          timer |-> ClearTimeout(timer, entry),
          pending |-> pending,
          hpc |-> ResolveCall(hpc, entry, FALSE),
          wins |-> Won(wins, entry, "media")]

claimForMedia(key) ==
  IF key \notin DOMAIN pending
  THEN Unclaimed
  ELSE LET entry == pending[key] IN
    IF entryState[entry] # WAITING_FOR_MEDIA
    THEN Unclaimed
    ELSE [result |-> [success |-> TRUE,
                      event |-> Some(texts[entry].event),
                      textContent |-> Some(texts[entry].event.body)],
          entryState |-> [entryState EXCEPT ![entry] = COMBINED_WITH_MEDIA],
          timer |-> ClearTimeout(timer, entry),
          pending |-> RemoveKey(pending, key),
          hpc |-> ResolveCall(hpc, entry, FALSE),
          wins |-> Won(wins, entry, "media")]

\* Mutant: a successful timeout claim marks the entry PROCESSED_AS_TEXT but
\* does not delete it from the map.
claimForTimeout_keepsEntry(key, eventId) ==
  IF key \notin DOMAIN pending
  THEN Unclaimed
  ELSE LET entry == pending[key] IN
    IF texts[entry].event.event_id # eventId \/ entryState[entry] # WAITING_FOR_MEDIA
    THEN Unclaimed
    ELSE [result |-> [success |-> TRUE,
                      event |-> Some(texts[entry].event), textContent |-> Undefined],
          entryState |-> [entryState EXCEPT ![entry] = PROCESSED_AS_TEXT],
          timer |-> timer,
          pending |-> pending,
          hpc |-> hpc,
          wins |-> Won(wins, entry, "timeout")]

\* Mutant: the event id of the stored entry is not compared with the
\* caller's, so a stale timer claims whatever entry is under the key.
claimForTimeout_noEventIdCheck(key, eventId) ==
  IF key \notin DOMAIN pending
  THEN Unclaimed
  ELSE LET entry == pending[key] IN
    IF entryState[entry] # WAITING_FOR_MEDIA
    THEN Unclaimed
    ELSE [result |-> [success |-> TRUE,
                      event |-> Some(texts[entry].event), textContent |-> Undefined],
          entryState |-> [entryState EXCEPT ![entry] = PROCESSED_AS_TEXT],
          timer |-> timer,
          pending |-> RemoveKey(pending, key),
          hpc |-> hpc,
          wins |-> Won(wins, entry, "timeout")]

claimForTimeout(key, eventId) ==
  IF key \notin DOMAIN pending
  THEN Unclaimed
  ELSE LET entry == pending[key] IN
    IF texts[entry].event.event_id # eventId
    THEN Unclaimed
    ELSE IF entryState[entry] # WAITING_FOR_MEDIA
    THEN Unclaimed
    ELSE [result |-> [success |-> TRUE,
                      event |-> Some(texts[entry].event), textContent |-> Undefined],
          entryState |-> [entryState EXCEPT ![entry] = PROCESSED_AS_TEXT],
          timer |-> timer,
          pending |-> RemoveKey(pending, key),
          hpc |-> hpc,
          wins |-> Won(wins, entry, "timeout")]

\* Mutant: the continuation is not run as a microtask, so timer callbacks
\* and newly dispatched events may run before it.
MicrotaskPending_never == FALSE

\* Mutant: only the continuation of a released caller (resolved with false)
\* runs as a microtask; after a successful timeout claim other events and
\* timers may run before the caller goes on to onTextOnly.
MicrotaskPending_releasedOnly == \E m \in TextIds : hpc[m] = "resumedFalse"

\* A handleText call whose promise has been resolved continues in a
\* microtask: before any timer callback and any newly dispatched event.
MicrotaskPending == \E m \in TextIds : hpc[m] \in {"resumedTrue", "resumedFalse"}

ArrivedTexts == { m \in TextIds : hpc[m] # "idle" }
ArrivedMedia == { j \in MediaIds : mpc[j] # "idle" }
Dispatched == Cardinality(ArrivedTexts) + Cardinality(ArrivedMedia)

(***************************************************************************)
(* handleText(roomId, event, onTextOnly), up to its await: supersession of *)
(* an existing entry for the key, then the new entry and its timer.        *)
(* `throws`: the superseded entry's onTextOnly raises while being invoked  *)
(* (a handler that is not an async function may); otherwise it returns a   *)
(* promise that settles later.                                             *)
(***************************************************************************)
\* Mutant: handleText without the `if (existing)` block: the new entry
\* overwrites the key's slot and the old entry is left as it was.
HandleText_noSupersession(roomId, sender, body, throws) ==
  /\ UNCHANGED serviceVars
  /\ ~MicrotaskPending
  /\ Dispatched < MaxEvents
  /\ ~throws
  /\ LET m == Cardinality(ArrivedTexts) + 1
         event == [event_id |-> TextEventId(m), sender |-> sender, body |-> body]
         key == getKey(roomId, event.sender)
     IN
     /\ texts' = [texts EXCEPT ![m] = [roomId |-> roomId, event |-> event]]
     /\ timer' = [timer EXCEPT ![m] = "armed"]
     /\ entryState' = [entryState EXCEPT ![m] = WAITING_FOR_MEDIA]
     /\ pending' = SetKey(pending, key, m)
     /\ hpc' = [hpc EXCEPT ![m] = "suspended"]
     /\ UNCHANGED <<spc, mpc, log, wins>>

HandleText(roomId, sender, body, throws) ==
  /\ UNCHANGED serviceVars
  /\ ~MicrotaskPending
  /\ Dispatched < MaxEvents
  /\ LET m == Cardinality(ArrivedTexts) + 1
         event == [event_id |-> TextEventId(m), sender |-> sender, body |-> body]
         key == getKey(roomId, event.sender)
         superseding == key \in DOMAIN pending
         existing == pending[key]
         timer1 == IF superseding THEN ClearTimeout(timer, existing) ELSE timer
         state1 == IF superseding
                   THEN [entryState EXCEPT ![existing] = PROCESSED_AS_TEXT]
                   ELSE entryState
         pending1 == IF superseding THEN RemoveKey(pending, key) ELSE pending
         hpc1 == IF superseding THEN ResolveCall(hpc, existing, FALSE) ELSE hpc
     IN
     /\ throws => superseding
     /\ texts' = [texts EXCEPT ![m] = [roomId |-> roomId, event |-> event]]
     /\ wins' = IF superseding THEN Won(wins, existing, "supersede") ELSE wins
     /\ log' = IF superseding
               THEN Logged(log, key, TextOnlyCall(texts[existing].roomId, texts[existing].event))
               ELSE log
     /\ IF throws
        THEN \* existing.onTextOnly(...) raised: handleText rejects before the new Promise
             /\ spc' = spc
             /\ timer' = timer1
             /\ entryState' = state1
             /\ pending' = pending1
             /\ hpc' = [hpc1 EXCEPT ![m] = "rejected"]
        ELSE /\ spc' = IF superseding THEN [spc EXCEPT ![existing] = "running"] ELSE spc
             /\ timer' = [timer1 EXCEPT ![m] = "armed"]
             /\ entryState' = [state1 EXCEPT ![m] = WAITING_FOR_MEDIA]
             /\ pending' = SetKey(pending1, key, m)
             /\ hpc' = [hpc1 EXCEPT ![m] = "suspended"]
     /\ UNCHANGED mpc

\* The fire-and-forget promise of a superseded onTextOnly settles; a
\* rejection (~ok) goes to the .catch handler, which logs it.
SupersededSettle(m, ok) ==
  /\ UNCHANGED serviceVars
  /\ ~MicrotaskPending
  /\ spc[m] = "running"
  /\ spc' = [spc EXCEPT ![m] = "settled"]
  /\ UNCHANGED <<pending, entryState, texts, timer, hpc, mpc, log, wins>>

\* Mutant: the timer callback claims with the event id of whatever entry is
\* under the key when it fires, not with the id of the text it was armed for.
TimerFire_currentEntry(m) ==
  /\ UNCHANGED serviceVars
  /\ ~MicrotaskPending
  /\ timer[m] = "armed"
  /\ \A n \in TextIds : timer[n] = "armed" => m <= n
  /\ LET key == getKey(texts[m].roomId, texts[m].event.sender)
         claim == claimForTimeout(key, IF key \in DOMAIN pending
                                       THEN texts[pending[key]].event.event_id
                                       ELSE texts[m].event.event_id)
     IN
     /\ pending' = claim.pending
     /\ entryState' = claim.entryState
     /\ wins' = claim.wins
     /\ timer' = [claim.timer EXCEPT ![m] = IF claim.result.success THEN "firedClaimed" ELSE "firedFailed"]
     /\ hpc' = ResolveCall(claim.hpc, m, claim.result.success)
  /\ UNCHANGED <<texts, spc, mpc, log>>

\* The setTimeout callback of text m's handleText call runs.  Every timer
\* has the same delay (aggregationWindowMs), so timers expire in the order
\* they were armed.
TimerFire(m) ==
  /\ UNCHANGED serviceVars
  /\ ~MicrotaskPending
  /\ timer[m] = "armed"
  /\ \A n \in TextIds : timer[n] = "armed" => m <= n
  /\ LET key == getKey(texts[m].roomId, texts[m].event.sender)
         claim == claimForTimeout(key, texts[m].event.event_id)
     IN
     /\ pending' = claim.pending
     /\ entryState' = claim.entryState
     /\ wins' = claim.wins
     /\ timer' = [claim.timer EXCEPT ![m] = IF claim.result.success THEN "firedClaimed" ELSE "firedFailed"]
     /\ hpc' = ResolveCall(claim.hpc, m, claim.result.success)
  /\ UNCHANGED <<texts, spc, mpc, log>>

\* handleText after its await: invoke onTextOnly only if the timeout claim
\* succeeded, and await the promise it returns.  (An onTextOnly that raises
\* while being invoked rejects the call at once: the same state as
\* TextOnlySettle(m, FALSE) right after.)
HandleTextResume(m) ==
  /\ UNCHANGED serviceVars
  /\ hpc[m] \in {"resumedTrue", "resumedFalse"}
  /\ IF hpc[m] = "resumedTrue"
     THEN /\ log' = Logged(log, getKey(texts[m].roomId, texts[m].event.sender),
                           TextOnlyCall(texts[m].roomId, texts[m].event))
          /\ hpc' = [hpc EXCEPT ![m] = "inCallback"]
     ELSE /\ log' = log
          /\ hpc' = [hpc EXCEPT ![m] = "returned"]
  /\ UNCHANGED <<pending, entryState, texts, timer, spc, mpc, wins>>

\* The promise returned by onTextOnly settles and handleText completes with it.
TextOnlySettle(m, ok) ==
  /\ UNCHANGED serviceVars
  /\ ~MicrotaskPending
  /\ hpc[m] = "inCallback"
  /\ hpc' = [hpc EXCEPT ![m] = IF ok THEN "returned" ELSE "rejected"]
  /\ UNCHANGED <<pending, entryState, texts, timer, spc, mpc, log, wins>>

\* JavaScript truthiness of an optional string: defined and not empty.
Truthy(opt) == opt # Undefined /\ opt[1] # ""

(***************************************************************************)
(* handleImage(roomId, event, onImage): claim, then invoke the handler     *)
(* with or without the text, and await the promise it returns.  (A handler *)
(* that raises while being invoked rejects the call at once: the same      *)
(* state as MediaSettle(j, FALSE) right after.)                            *)
(***************************************************************************)
\* Mutant: handleImage invokes the handler with the pending text first and
\* leaves the claim (removal, timer, release of the caller) for later.
HandleImage_handlerBeforeClaim(roomId, sender) ==
  /\ UNCHANGED serviceVars
  /\ ~MicrotaskPending
  /\ Dispatched < MaxEvents
  /\ LET j == Cardinality(ArrivedMedia) + 1
         event == [event_id |-> MediaEventId(j), sender |-> sender, body |-> "attachment"]
         key == getKey(roomId, event.sender)
         claim == claimForMedia(key)
     IN
     /\ log' = IF claim.result.success /\ Truthy(claim.result.textContent)
               THEN Logged(log, key, MediaCall(roomId, event, claim.result.textContent))
               ELSE Logged(log, key, MediaCall(roomId, event, Undefined))
     /\ mpc' = [mpc EXCEPT ![j] = "inHandler"]
  /\ UNCHANGED <<pending, entryState, timer, hpc, wins, texts, spc>>

HandleImage(roomId, sender) ==
  /\ UNCHANGED serviceVars
  /\ ~MicrotaskPending
  /\ Dispatched < MaxEvents
  /\ LET j == Cardinality(ArrivedMedia) + 1
         event == [event_id |-> MediaEventId(j), sender |-> sender, body |-> "attachment"]
         key == getKey(roomId, event.sender)
         claim == claimForMedia(key)
     IN
     /\ pending' = claim.pending
     /\ entryState' = claim.entryState
     /\ timer' = claim.timer
     /\ hpc' = claim.hpc
     /\ wins' = claim.wins
     /\ log' = IF claim.result.success /\ Truthy(claim.result.textContent)
               THEN Logged(log, key, MediaCall(roomId, event, claim.result.textContent))
               ELSE Logged(log, key, MediaCall(roomId, event, Undefined))
     /\ mpc' = [mpc EXCEPT ![j] = "inHandler"]
  /\ UNCHANGED <<texts, spc>>

\* Mutant: handleFile passes the text whenever the claim succeeded, while
\* handleImage keeps the truthiness test on the claimed text.
HandleFile_successOnly(roomId, sender) ==
  /\ UNCHANGED serviceVars
  /\ ~MicrotaskPending
  /\ Dispatched < MaxEvents
  /\ LET j == Cardinality(ArrivedMedia) + 1
         event == [event_id |-> MediaEventId(j), sender |-> sender, body |-> "attachment"]
         key == getKey(roomId, event.sender)
         claim == claimForMedia(key)
     IN
     /\ pending' = claim.pending
     /\ entryState' = claim.entryState
     /\ timer' = claim.timer
     /\ hpc' = claim.hpc
     /\ wins' = claim.wins
     /\ log' = IF claim.result.success
               THEN Logged(log, key, MediaCall(roomId, event, claim.result.textContent))
               ELSE Logged(log, key, MediaCall(roomId, event, Undefined))
     /\ mpc' = [mpc EXCEPT ![j] = "inHandler"]
  /\ UNCHANGED <<texts, spc>>

\* handleFile(roomId, event, onFile): as handleImage, for m.file events.
HandleFile(roomId, sender) ==
  /\ UNCHANGED serviceVars
  /\ ~MicrotaskPending
  /\ Dispatched < MaxEvents
  /\ LET j == Cardinality(ArrivedMedia) + 1
         event == [event_id |-> MediaEventId(j), sender |-> sender, body |-> "attachment"]
         key == getKey(roomId, event.sender)
         claim == claimForMedia(key)
     IN
     /\ pending' = claim.pending
     /\ entryState' = claim.entryState
     /\ timer' = claim.timer
     /\ hpc' = claim.hpc
     /\ wins' = claim.wins
     /\ log' = IF claim.result.success /\ Truthy(claim.result.textContent)
               THEN Logged(log, key, MediaCall(roomId, event, claim.result.textContent))
               ELSE Logged(log, key, MediaCall(roomId, event, Undefined))
     /\ mpc' = [mpc EXCEPT ![j] = "inHandler"]
  /\ UNCHANGED <<texts, spc>>

\* Mutant: handleImage / handleFile completes only once no timer is armed.
MediaSettle_afterTimers(j, ok) ==
  /\ UNCHANGED serviceVars
  /\ ~MicrotaskPending
  /\ \A m \in TextIds : timer[m] # "armed"
  /\ mpc[j] = "inHandler"
  /\ mpc' = [mpc EXCEPT ![j] = IF ok THEN "returned" ELSE "rejected"]
  /\ UNCHANGED <<pending, entryState, texts, timer, hpc, spc, log, wins>>

\* The promise returned by the media handler settles; handleImage /
\* handleFile completes with it (there is no try/catch around the await).
MediaSettle(j, ok) ==
  /\ UNCHANGED serviceVars
  /\ ~MicrotaskPending
  /\ mpc[j] = "inHandler"
  /\ mpc' = [mpc EXCEPT ![j] = IF ok THEN "returned" ELSE "rejected"]
  /\ UNCHANGED <<pending, entryState, texts, timer, hpc, spc, log, wins>>

\* claimForMedia called directly on the public method (as the unit tests do).
DirectClaimForMedia(key) ==
  /\ UNCHANGED serviceVars
  /\ ~MicrotaskPending
  /\ LET claim == claimForMedia(key) IN
     /\ pending' = claim.pending
     /\ entryState' = claim.entryState
     /\ timer' = claim.timer
     /\ hpc' = claim.hpc
     /\ wins' = claim.wins
  /\ UNCHANGED <<texts, spc, mpc, log>>

\* claimForTimeout called directly on the public method.
DirectClaimForTimeout(key, eventId) ==
  /\ UNCHANGED serviceVars
  /\ ~MicrotaskPending
  /\ LET claim == claimForTimeout(key, eventId) IN
     /\ pending' = claim.pending
     /\ entryState' = claim.entryState
     /\ timer' = claim.timer
     /\ hpc' = claim.hpc
     /\ wins' = claim.wins
  /\ UNCHANGED <<texts, spc, mpc, log>>

RECURSIVE ResolveAll(_, _)
ResolveAll(h, S) ==
  IF S = {} THEN h
  ELSE LET e == CHOOSE x \in S : TRUE
       IN ResolveAll(ResolveCall(h, e, FALSE), S \ {e})

RECURSIVE ClearAll(_, _)
ClearAll(t, S) ==
  IF S = {} THEN t
  ELSE LET e == CHOOSE x \in S : TRUE
       IN ClearAll(ClearTimeout(t, e), S \ {e})

RECURSIVE WonAll(_, _, _)
WonAll(w, S, how) ==
  IF S = {} THEN w
  ELSE LET e == CHOOSE x \in S : TRUE
       IN WonAll(Won(w, e, how), S \ {e}, how)

PendingEntries == { pending[k] : k \in DOMAIN pending }

\* Mutant: cleanup clears the timers and empties the map without resolving
\* the promises of the pending entries.
Cleanup_withoutResolve ==
  /\ UNCHANGED serviceVars
  /\ ~MicrotaskPending
  /\ timer' = ClearAll(timer, PendingEntries)
  /\ hpc' = hpc
  /\ wins' = WonAll(wins, PendingEntries, "cleanup")
  /\ pending' = EmptyMap
  /\ UNCHANGED <<entryState, texts, spc, mpc, log>>

\* Mutant: cleanup resolves the promises and empties the map but leaves the
\* timers of the pending entries armed.
Cleanup_keepsTimers ==
  /\ UNCHANGED serviceVars
  /\ ~MicrotaskPending
  /\ timer' = timer
  /\ hpc' = ResolveAll(hpc, PendingEntries)
  /\ wins' = WonAll(wins, PendingEntries, "cleanup")
  /\ pending' = EmptyMap
  /\ UNCHANGED <<entryState, texts, spc, mpc, log>>

\* cleanup(): clear every pending entry's timer, resolve its promise, empty the map.
Cleanup ==
  /\ UNCHANGED serviceVars
  /\ ~MicrotaskPending
  /\ timer' = ClearAll(timer, PendingEntries)
  /\ hpc' = ResolveAll(hpc, PendingEntries)
  /\ wins' = WonAll(wins, PendingEntries, "cleanup")
  /\ pending' = EmptyMap
  /\ UNCHANGED <<entryState, texts, spc, mpc, log>>

Next ==
  \/ \E in \in TextInputs(Cardinality(ArrivedTexts) + 1), throws \in BOOLEAN :
       HandleText(in[1], in[2], in[3], throws)
  \/ \E m \in TextIds, ok \in BOOLEAN : SupersededSettle(m, ok)
  \/ \E m \in TextIds : TimerFire(m)
  \/ \E m \in TextIds : HandleTextResume(m)
  \/ \E m \in TextIds, ok \in BOOLEAN : TextOnlySettle(m, ok)
  \/ \E p \in Pairs : HandleImage(p[1], p[2])
  \/ \E p \in Pairs : HandleFile(p[1], p[2])
  \/ \E j \in MediaIds, ok \in BOOLEAN : MediaSettle(j, ok)
  \/ \E k \in DOMAIN pending \cup {"nonexistent:key"} : DirectClaimForMedia(k)
  \/ \E k \in DOMAIN pending, m \in ArrivedTexts : DirectClaimForTimeout(k, TextEventId(m))
  \/ Cleanup

Spec == Init /\ [][Next]_vars

\* A step the event loop owes to a started handleText call: the callback of
\* its armed timer, the continuation of its resolved await, or the
\* completion of the onTextOnly callback it is awaiting.
Progress ==
  \E m \in TextIds :
    \/ TimerFire(m)
    \/ HandleTextResume(m)
    \/ \E ok \in BOOLEAN : TextOnlySettle(m, ok)

\* Armed timers eventually fire, resolved awaits continue and caller
\* callbacks terminate: the event loop does not stop while such a step is
\* due.  (Each call takes each of these steps at most once.)
Fairness == WF_vars(Progress)

FairSpec == Spec /\ Fairness

\* Caller-supplied media handlers terminate and resolved awaits continue;
\* nothing is assumed about timers.
MediaFairness ==
  /\ WF_vars(\E j \in MediaIds, ok \in BOOLEAN : MediaSettle(j, ok))
  /\ WF_vars(\E m \in TextIds : HandleTextResume(m))

MediaFairSpec == Spec /\ MediaFairness

\* The aggregator as main.ts uses it: only handleText, handleImage and
\* handleFile are called (no direct claim, no cleanup).
HandlersNext ==
  \/ \E in \in TextInputs(Cardinality(ArrivedTexts) + 1), throws \in BOOLEAN :
       HandleText(in[1], in[2], in[3], throws)
  \/ \E m \in TextIds, ok \in BOOLEAN : SupersededSettle(m, ok)
  \/ \E m \in TextIds : TimerFire(m)
  \/ \E m \in TextIds : HandleTextResume(m)
  \/ \E m \in TextIds, ok \in BOOLEAN : TextOnlySettle(m, ok)
  \/ \E p \in Pairs : HandleImage(p[1], p[2])
  \/ \E p \in Pairs : HandleFile(p[1], p[2])
  \/ \E j \in MediaIds, ok \in BOOLEAN : MediaSettle(j, ok)

HandlersSpec == Init /\ [][HandlersNext]_vars

HandlersFairSpec == HandlersSpec /\ Fairness

\* Only handleText, handleImage, handleFile and cleanup are called (no
\* direct claim).
HandlersCleanupNext == HandlersNext \/ Cleanup

HandlersCleanupSpec == Init /\ [][HandlersCleanupNext]_vars

(***************************************************************************)
(* Observations used by the properties.                                    *)
(***************************************************************************)
KeyOf(m) == getKey(texts[m].roomId, texts[m].event.sender)

\* getState(roomId, senderId): the state of the key's entry, or undefined.
getState(roomId, senderId) ==
  IF getKey(roomId, senderId) \in DOMAIN pending
  THEN Some(entryState[pending[getKey(roomId, senderId)]])
  ELSE Undefined

\* getPendingCount()
getPendingCount == Cardinality(DOMAIN pending)

\* Positions <<key, i>> of the logged callback invocations.
LogPositions == { ki \in Keys \X (1..(2 * MaxEvents)) : ki[2] <= Len(log[ki[1]]) }

\* Invocations of a text-only callback with text m's event.
TextOnlyCalls(m) ==
  { ki \in LogPositions :
      /\ log[ki[1]][ki[2]].kind = "textOnly"
      /\ log[ki[1]][ki[2]].event.event_id = TextEventId(m) }

\* Invocations of a media handler that received text m's body as text.
CombinedCalls(m) ==
  { ki \in LogPositions :
      /\ log[ki[1]][ki[2]].kind = "media"
      /\ log[ki[1]][ki[2]].text = Some(texts[m].event.body) }

\* The finalizations of entry m that are a media claim, a timeout claim or a supersession.
ClaimWins(m) ==
  { i \in DOMAIN wins[m] : wins[m][i] \in {"media", "timeout", "supersede"} }

(***************************************************************************)
(* C1: every pending entry is won by at most one of a successful media     *)
(* claim, a successful timeout claim and a supersession, whatever the      *)
(* interleaving of timers, media events, direct claims and new texts.      *)
(***************************************************************************)
C1_AtMostOneWinner == \A m \in TextIds : Cardinality(ClaimWins(m)) <= 1

\* An entry was claimed for timeout by a direct call, its own timer fired
\* afterwards and lost, and a media event for its key then found nothing.
C1_Witness ==
  \E m \in ArrivedTexts :
    /\ wins[m] = <<"timeout">>
    /\ timer[m] = "firedFailed"
    /\ \E i \in DOMAIN log[KeyOf(m)] :
         log[KeyOf(m)][i].kind = "media" /\ log[KeyOf(m)][i].text = Undefined

(***************************************************************************)
(* C2: every text event is delivered at most once, counting text-only      *)
(* callback invocations with it and media-handler invocations that got its *)
(* body as combined text together.                                         *)
(***************************************************************************)
C2_DeliveredAtMostOnce ==
  \A m \in ArrivedTexts :
    Cardinality(TextOnlyCalls(m)) + Cardinality(CombinedCalls(m)) <= 1

\* A text was combined with media, and its handleText call has returned
\* without a text-only invocation.
C2_Witness ==
  \E m \in ArrivedTexts :
    /\ Cardinality(CombinedCalls(m)) = 1
    /\ TextOnlyCalls(m) = {}
    /\ hpc[m] = "returned"

\* Text events whose handleText call is still suspended on its promise.
UnresolvedTexts == { m \in ArrivedTexts : hpc[m] = "suspended" }

(***************************************************************************)
(* C4: for every key at most one entry is pending (waiting, with its       *)
(* caller suspended) and the map holds no other, so getPendingCount()      *)
(* never exceeds the number of distinct keys that have an unresolved text. *)
(***************************************************************************)
C4_OneEntryPerKey ==
  /\ \A k \in Keys :
       Cardinality({ m \in UnresolvedTexts :
                       KeyOf(m) = k /\ entryState[m] = WAITING_FOR_MEDIA }) <= 1
  /\ \A k \in DOMAIN pending : KeyOf(pending[k]) = k
  /\ getPendingCount <= Cardinality({ KeyOf(m) : m \in UnresolvedTexts })

\* Two keys hold an entry each, one of them after a supersession on its key.
C4_Witness ==
  /\ getPendingCount = 2
  /\ \E m \in ArrivedTexts : wins[m] = <<"supersede">> /\ KeyOf(m) \in DOMAIN pending

(***************************************************************************)
(* C5: an entry is created in WAITING_FOR_MEDIA; its state changes only    *)
(* WAITING_FOR_MEDIA -> COMBINED_WITH_MEDIA or WAITING_FOR_MEDIA ->        *)
(* PROCESSED_AS_TEXT; an entry in either of these two states never changes *)
(* state again and is not in the store.                                    *)
(***************************************************************************)
C5_StateMovesForward ==
  [][ \A m \in TextIds :
        /\ entryState'[m] # entryState[m] =>
             \/ entryState[m] = "none" /\ entryState'[m] = WAITING_FOR_MEDIA
             \/ /\ entryState[m] = WAITING_FOR_MEDIA
                /\ entryState'[m] \in {COMBINED_WITH_MEDIA, PROCESSED_AS_TEXT}
        /\ (m \in PendingEntries' /\ m \notin PendingEntries) =>
             entryState[m] = "none" /\ entryState'[m] = WAITING_FOR_MEDIA
        /\ entryState'[m] \in {COMBINED_WITH_MEDIA, PROCESSED_AS_TEXT} =>
             m \notin PendingEntries'
    ]_vars

\* One entry has ended COMBINED_WITH_MEDIA and another PROCESSED_AS_TEXT.
C5_Witness ==
  \E m, n \in ArrivedTexts :
    /\ entryState[m] = COMBINED_WITH_MEDIA
    /\ entryState[n] = PROCESSED_AS_TEXT

\* The last callback invocation logged for key k.
LastCall(l, k) == l[k][Len(l[k])]

\* This step invoked a media handler for key k (handleImage or handleFile ran).
MediaHandlerInvoked(k) ==
  /\ Len(log'[k]) = Len(log[k]) + 1
  /\ LastCall(log', k).kind = "media"

(***************************************************************************)
(* C6: when handleImage or handleFile is called for a key whose text entry *)
(* is still waiting (its timer has not fired), the media handler is        *)
(* invoked with the original body of that entry's text, and onTextOnly is  *)
(* never invoked for that text.                                            *)
(***************************************************************************)
C6_MediaWhileWaitingCombines ==
  /\ [](\A m \in ArrivedTexts : "media" \in { wins[m][i] : i \in DOMAIN wins[m] } =>
                                  TextOnlyCalls(m) = {})
  /\ [][ \A k \in Keys, e \in TextIds :
           ( /\ k \in DOMAIN pending
             /\ pending[k] = e
             /\ entryState[e] = WAITING_FOR_MEDIA
             /\ timer[e] = "armed"
             /\ MediaHandlerInvoked(k) )
           => LastCall(log', k).text = Some(texts[e].event.body)
      ]_vars

\* How entry m was finalized.
Finalizers(m) == { wins[m][i] : i \in DOMAIN wins[m] }

\* Text m's continuation after the await has run.
Resumed(m) == hpc[m] \in {"inCallback", "returned", "rejected"}

\* onTextOnly has been invoked exactly once for text m, for its key, with
\* the room and the event of its handleText call.
DeliveredTextOnlyOnce(m) ==
  /\ Cardinality(TextOnlyCalls(m)) = 1
  /\ \A ki \in TextOnlyCalls(m) :
       /\ ki[1] = KeyOf(m)
       /\ log[ki[1]][ki[2]] = TextOnlyCall(texts[m].roomId, texts[m].event)

MediaCalls(k) == { i \in DOMAIN log[k] : log[k][i].kind = "media" }

(***************************************************************************)
(* C7: a text followed by no media, no further text on its key and no      *)
(* cleanup is delivered through onTextOnly exactly once when its timer     *)
(* fires, with the original room and event, and afterwards the pending     *)
(* count is zero.  Stated on completed handleText calls: once the call of  *)
(* such a text has got past its await or has failed, the text has been     *)
(* delivered exactly once and its key holds no entry.                      *)
(***************************************************************************)
C7_LoneTextDelivered ==
  \A m \in ArrivedTexts :
    ( /\ MediaCalls(KeyOf(m)) = {}
      /\ \A n \in ArrivedTexts : n > m => KeyOf(n) # KeyOf(m)
      /\ \A n \in ArrivedTexts : "cleanup" \notin Finalizers(n)
      /\ Resumed(m) )
    => /\ timer[m] = "firedClaimed"
       /\ DeliveredTextOnlyOnce(m)
       /\ KeyOf(m) \notin DOMAIN pending
       /\ (ArrivedTexts = {m} => getPendingCount = 0)

\* Text m's own timer fired while m was the waiting entry of its key.
TimerFiredFirst(m) == m \in ArrivedTexts /\ timer[m] = "firedClaimed"

SecondTextArrives(e, n) ==
  /\ hpc[n] = "idle" /\ hpc'[n] # "idle"
  /\ getKey(texts'[n].roomId, texts'[n].event.sender) \in DOMAIN pending
  /\ pending[getKey(texts'[n].roomId, texts'[n].event.sender)] = e

(***************************************************************************)
(* C9: when a second text arrives on a key whose first text is still       *)
(* pending, the first text is delivered through its own stored onTextOnly  *)
(* callback at that moment, the second text gets a new entry with a fresh  *)
(* full window, and (absent media and cleanup) each of the two texts is    *)
(* delivered through onTextOnly exactly once.                              *)
(***************************************************************************)
C9_SupersessionDeliversBoth ==
  /\ [][ \A e, n \in TextIds :
           SecondTextArrives(e, n)
           => LET k == KeyOf(e) IN
              /\ log'[k] = Append(log[k], TextOnlyCall(texts[e].roomId, texts[e].event))
              /\ k \in DOMAIN pending' /\ pending'[k] = n
              /\ entryState'[n] = WAITING_FOR_MEDIA
              /\ timer'[n] = "armed" ]_vars
  /\ [](\A e, n \in ArrivedTexts :
          ( /\ "supersede" \in Finalizers(e)
            /\ e < n /\ KeyOf(n) = KeyOf(e)
            /\ \A x \in ArrivedTexts : (e < x /\ x < n) => KeyOf(x) # KeyOf(e)
            /\ MediaCalls(KeyOf(e)) = {}
            /\ \A x \in ArrivedTexts : "cleanup" \notin Finalizers(x) )
          => /\ DeliveredTextOnlyOnce(e)
             /\ Cardinality(TextOnlyCalls(n)) <= 1
             /\ (hpc[n] \in {"returned", "rejected"} => DeliveredTextOnlyOnce(n)))

\* Some entry is waiting under key k and its event id is eventId.
WaitingEntryMatches(k, eventId) ==
  /\ k \in DOMAIN pending
  /\ entryState[pending[k]] = WAITING_FOR_MEDIA
  /\ texts[pending[k]].event.event_id = eventId

\* This step ran the timer callback of text m.
TimerCallbackRan(m) == timer[m] = "armed" /\ timer'[m] \in {"firedClaimed", "firedFailed"}

(***************************************************************************)
(* C10: claimForTimeout(key, eventId) succeeds only if an entry exists     *)
(* under the key, that entry's event id equals eventId and its state is    *)
(* WAITING_FOR_MEDIA; on an event id mismatch it returns failure and       *)
(* leaves the entry untouched, so a stale timer cannot claim a newer       *)
(* entry.  Checked for every key and event id in every reachable state,    *)
(* and on every step in which a timer callback runs.                       *)
(***************************************************************************)
C10_ClaimForTimeoutChecksEventId ==
  /\ [](\A k \in Keys \cup {"nonexistent:key"}, id \in EventIds :
          LET claim == claimForTimeout(k, id) IN
          /\ claim.result.success <=> WaitingEntryMatches(k, id)
          /\ (k \in DOMAIN pending /\ texts[pending[k]].event.event_id # id)
             => /\ ~claim.result.success
                /\ claim.pending = pending
                /\ claim.entryState = entryState
                /\ claim.timer = timer
                /\ claim.hpc = hpc
                /\ claim.wins = wins)
  /\ [][ \A m \in TextIds :
           TimerCallbackRan(m)
           => LET k == KeyOf(m) IN
              /\ timer'[m] = "firedClaimed" <=> WaitingEntryMatches(k, TextEventId(m))
              /\ (k \in DOMAIN pending /\ pending[k] # m)
                 => /\ timer'[m] = "firedFailed"
                    /\ hpc'[m] = "resumedFalse"
                    /\ pending' = pending
                    /\ entryState' = entryState
                    /\ wins' = wins
                    /\ timer'[pending[k]] = timer[pending[k]]
                    /\ hpc'[pending[k]] = hpc[pending[k]] ]_vars

\* The stale timer of a superseded text has just fired while a newer text
\* of the same key is waiting: the newer entry is still in the store,
\* waiting, with its own timer armed and its caller suspended.
C10_Witness ==
  \E m, n \in ArrivedTexts :
    /\ m # n /\ KeyOf(m) = KeyOf(n)
    /\ timer[m] = "firedFailed"
    /\ hpc[m] = "resumedFalse"
    /\ KeyOf(n) \in DOMAIN pending /\ pending[KeyOf(n)] = n
    /\ entryState[n] = WAITING_FOR_MEDIA
    /\ timer[n] = "armed"
    /\ hpc[n] = "suspended"
    /\ wins[n] = << >>

\* handleText call m has settled: it returned or it failed.
Settled(m) == hpc[m] \in {"returned", "rejected"}

\* handleText call m has started and has not settled.
InFlight(m) == hpc[m] # "idle" /\ ~Settled(m)

(***************************************************************************)
(* C3: every handleText call eventually returns.  Whatever media arrivals, *)
(* superseding texts, direct claims and cleanup calls occur, and provided  *)
(* armed timers eventually fire and caller callbacks terminate, no         *)
(* handleText caller stays suspended forever: from some point on no call   *)
(* is in flight.  (A settled call stays settled, so this says that each    *)
(* of the calls made eventually settles.)                                  *)
(***************************************************************************)
C3_HandleTextEventuallyReturns ==
  <>[](\A m \in TextIds : ~InFlight(m))

\* Callers released in three ways have returned: one by cleanup
\* and one by a media claim without their callback being invoked, one by
\* its timer after its callback completed.
C3_Witness ==
  \E a, b, c \in ArrivedTexts :
    /\ wins[a] = <<"cleanup">> /\ hpc[a] = "returned" /\ TextOnlyCalls(a) = {}
    /\ wins[b] = <<"media">> /\ hpc[b] = "returned" /\ TextOnlyCalls(b) = {}
    /\ wins[c] = <<"timeout">> /\ timer[c] = "firedClaimed" /\ Settled(c)


\* An entry exists under key k and its state is WAITING_FOR_MEDIA.
WaitingEntry(k) == k \in DOMAIN pending /\ entryState[pending[k]] = WAITING_FOR_MEDIA

(***************************************************************************)
(* C11: claimForMedia(key) succeeds if and only if an entry exists for key *)
(* in state WAITING_FOR_MEDIA; a failed claimForMedia (and hence a         *)
(* handleImage/handleFile that finds nothing to claim) changes nothing:    *)
(* the store, every timer and every suspended handleText caller are        *)
(* exactly as before.  Checked for every key in every reachable state, and *)
(* on every step in which a media handler is invoked.                      *)
(***************************************************************************)
C11_ClaimForMediaContract ==
  /\ [](\A k \in Keys \cup {"nonexistent:key"} :
          LET claim == claimForMedia(k) IN
          /\ claim.result.success <=> WaitingEntry(k)
          /\ ~claim.result.success
             => /\ claim.result = NotClaimed
                /\ claim.pending = pending
                /\ claim.entryState = entryState
                /\ claim.timer = timer
                /\ claim.hpc = hpc
                /\ claim.wins = wins)
  /\ [][ \A k \in Keys :
           MediaHandlerInvoked(k)
           => IF WaitingEntry(k)
              THEN /\ k \notin DOMAIN pending'
                   /\ entryState'[pending[k]] = COMBINED_WITH_MEDIA
                   /\ wins'[pending[k]] = <<"media">>
              ELSE /\ pending' = pending
                   /\ entryState' = entryState
                   /\ timer' = timer
                   /\ hpc' = hpc
                   /\ wins' = wins
                   /\ LastCall(log', k).text = Undefined ]_vars

\* A media handler has been invoked alone for a key that never had a text,
\* while the text of another key is still waiting with its timer armed and
\* its caller suspended.
C11_Witness ==
  \E k \in Keys, m \in ArrivedTexts :
    /\ MediaCalls(k) # {}
    /\ \A i \in MediaCalls(k) : log[k][i].text = Undefined
    /\ \A n \in ArrivedTexts : KeyOf(n) # k
    /\ KeyOf(m) \in DOMAIN pending /\ pending[KeyOf(m)] = m
    /\ entryState[m] = WAITING_FOR_MEDIA
    /\ timer[m] = "armed"
    /\ hpc[m] = "suspended"
    /\ wins[m] = << >>


\* Entry m was claimed by media and no newer text of its key has arrived.
ClaimedByMediaAndNotReplaced(m) ==
  /\ "media" \in Finalizers(m)
  /\ \A n \in ArrivedTexts : n > m => KeyOf(n) # KeyOf(m)

(***************************************************************************)
(* C12: claimForMedia is single-use per entry: it fails on a key with no   *)
(* entry, and after one successful claim on a key every further            *)
(* claimForMedia on that key fails until a new text creates a new entry;   *)
(* so of two media events that follow one text, only the first receives    *)
(* the text and the second is processed alone.                             *)
(***************************************************************************)
C12_ClaimForMediaSingleUse ==
  /\ [](\A k \in Keys \cup {"nonexistent:key"} :
          k \notin DOMAIN pending => ~claimForMedia(k).result.success)
  /\ [](\A m \in ArrivedTexts :
          /\ Cardinality({ i \in DOMAIN wins[m] : wins[m][i] = "media" }) <= 1
          /\ Cardinality(CombinedCalls(m)) <= 1
          /\ ClaimedByMediaAndNotReplaced(m)
             => /\ KeyOf(m) \notin DOMAIN pending
                /\ ~claimForMedia(KeyOf(m)).result.success)
  /\ [][ \A k \in Keys :
           MediaHandlerInvoked(k)
           => IF WaitingEntry(k)
              THEN LastCall(log', k).text = Some(texts[pending[k]].event.body)
              ELSE LastCall(log', k).text = Undefined ]_vars


\* Entry m was pending when cleanup() ran.
CleanedUp(m) == "cleanup" \in Finalizers(m)

(***************************************************************************)
(* C13: after cleanup() the store is empty (getPendingCount() = 0), and    *)
(* for every entry that was pending when cleanup() ran, its onTextOnly     *)
(* callback is never invoked afterwards - neither by its released          *)
(* handleText caller nor by its timer, which never fires: the timer is     *)
(* cancelled, the caller continues without the callback and returns.       *)
(***************************************************************************)
C13_CleanupReleasesWithoutCallback ==
  /\ [][ (\E m \in TextIds : CleanedUp(m)' /\ ~CleanedUp(m))
         => /\ getPendingCount' = 0
            /\ \A m \in PendingEntries : CleanedUp(m)' ]_vars
  /\ [](\A m \in ArrivedTexts :
          CleanedUp(m)
          => /\ wins[m] = <<"cleanup">>
             /\ TextOnlyCalls(m) = {}
             /\ timer[m] = "cleared"
             /\ hpc[m] \in {"resumedFalse", "returned"}
             /\ m \notin PendingEntries)

\* cleanup() ran while two entries were pending; both callers have since
\* returned, neither callback was invoked, and the store is empty.
C13_Witness ==
  \E m, n \in ArrivedTexts :
    /\ m # n
    /\ wins[m] = <<"cleanup">> /\ wins[n] = <<"cleanup">>
    /\ hpc[m] = "returned" /\ hpc[n] = "returned"
    /\ timer[m] = "cleared" /\ timer[n] = "cleared"
    /\ TextOnlyCalls(m) = {} /\ TextOnlyCalls(n) = {}
    /\ getPendingCount = 0


(***************************************************************************)
(* C14: a failure of the superseded entry's text-only callback, however it *)
(* fails (by a rejected completion signal or by raising while being        *)
(* invoked), never reaches the superseding handleText call: that call does *)
(* not fail because of it, and the new entry is still created in           *)
(* WAITING_FOR_MEDIA with its own timer.  So a handleText call fails only  *)
(* after its own onTextOnly was invoked, and every superseding call leaves *)
(* its entry waiting in the store with its timer armed.                    *)
(***************************************************************************)
C14_SupersededFailureContained ==
  /\ [][ \A e, n \in TextIds :
           SecondTextArrives(e, n)
           => /\ hpc'[n] = "suspended"
              /\ KeyOf(e) \in DOMAIN pending' /\ pending'[KeyOf(e)] = n
              /\ entryState'[n] = WAITING_FOR_MEDIA
              /\ timer'[n] = "armed" ]_vars
  /\ [][ \A e \in TextIds :
           (spc[e] = "running" /\ spc'[e] = "settled")
           => UNCHANGED <<pending, entryState, texts, timer, hpc, mpc, log, wins>> ]_vars
  /\ [](\A n \in ArrivedTexts : hpc[n] = "rejected" => TextOnlyCalls(n) # {})


\* Text n is the text whose handleText call superseded entry e.
Supersedes(n, e) ==
  /\ "supersede" \in Finalizers(e)
  /\ e < n /\ KeyOf(n) = KeyOf(e)
  /\ \A x \in ArrivedTexts : (e < x /\ x < n) => KeyOf(x) # KeyOf(e)

(***************************************************************************)
(* C15: the superseding text's handling does not wait for the superseded   *)
(* text's callback: the new entry is created (in the step of the           *)
(* supersession itself), its timer runs, and it is finalized (by timeout   *)
(* or media, or by whatever else takes it) even if the superseded entry's  *)
(* onTextOnly callback never completes.  No fairness is assumed for the    *)
(* completion of the superseded callback.                                  *)
(***************************************************************************)
C15_SupersederNotBlocked ==
  /\ [][ \A e, n \in TextIds :
           SecondTextArrives(e, n)
           => /\ KeyOf(e) \in DOMAIN pending' /\ pending'[KeyOf(e)] = n
              /\ entryState'[n] = WAITING_FOR_MEDIA
              /\ timer'[n] = "armed"
              /\ hpc'[n] = "suspended" ]_vars
  /\ <>[](\A e, n \in ArrivedTexts :
            Supersedes(n, e) => (wins[n] # << >> /\ timer[n] # "armed"))


\* The keys whose entry, state, timer, waiting caller or callbacks this step changed.
KeysTouched ==
  { k \in Keys :
      \/ (k \in DOMAIN pending) # (k \in DOMAIN pending')
      \/ (k \in DOMAIN pending /\ k \in DOMAIN pending' /\ pending'[k] # pending[k])
      \/ log'[k] # log[k]
      \/ \E m \in TextIds :
           /\ getKey(texts'[m].roomId, texts'[m].event.sender) = k
           /\ \/ entryState'[m] # entryState[m]
              \/ timer'[m] # timer[m]
              \/ hpc'[m] # hpc[m]
              \/ wins'[m] # wins[m] }

\* This step is a cleanup() call that found entries.
CleanupStep == \E m \in TextIds : CleanedUp(m)' /\ ~CleanedUp(m)

\* The media event of the last call logged for key k and the text event of
\* entry e come from the same room and the same sender.
SameRoomAndSender(call, e) ==
  /\ call.roomId = texts[e].roomId
  /\ call.event.sender = texts[e].event.sender

(***************************************************************************)
(* C16: operations on one key never affect another key: a handleText,      *)
(* handleImage, handleFile, claim or timer firing for key K leaves the     *)
(* entry, state, timer and waiting caller of every other key K' unchanged  *)
(* (every step other than cleanup touches at most one key), so media from  *)
(* one sender or room never claims the text of a different sender or room. *)
(***************************************************************************)
C16_KeysIndependent ==
  /\ [][ ~CleanupStep => Cardinality(KeysTouched) <= 1 ]_vars
  /\ [][ \A k \in Keys :
           (MediaHandlerInvoked(k) /\ WaitingEntry(k))
           => SameRoomAndSender(LastCall(log', k), pending[k]) ]_vars


\* The texts that have been given to handleText for key k.
TextsOfKey(k) == { m \in ArrivedTexts : KeyOf(m) = k }

(***************************************************************************)
(* C17: the event passed to a text-only callback and the text passed to a  *)
(* media handler are always exactly the payload of the text event that     *)
(* created the claimed entry; after a supersession a media event combines  *)
(* only with the newest text, and the superseded text is never merged into *)
(* or substituted for it.                                                  *)
(***************************************************************************)
C17_PayloadIsTheEntrysOwn ==
  /\ [](\A ki \in LogPositions :
          LET call == log[ki[1]][ki[2]] IN
          call.kind = "textOnly"
          => \E m \in TextsOfKey(ki[1]) :
               /\ call.roomId = texts[m].roomId
               /\ call.event = texts[m].event
               /\ Finalizers(m) \cap {"timeout", "supersede"} # {})
  /\ [][ \A k \in Keys :
           MediaHandlerInvoked(k)
           => \/ LastCall(log', k).text = Undefined
              \/ /\ WaitingEntry(k)
                 /\ LastCall(log', k).text = Some(texts[pending[k]].event.body)
                 /\ \A n \in TextsOfKey(k) : n <= pending[k] ]_vars
  /\ [](\A e \in ArrivedTexts :
          "supersede" \in Finalizers(e) => CombinedCalls(e) = {})

\* After a supersession the superseded text was delivered text-only with
\* its own event, and a media handler then received the newer text's body.
C17_Witness ==
  \E e, n \in ArrivedTexts :
    /\ Supersedes(n, e)
    /\ texts[e].event.body # "" /\ texts[n].event.body # ""
    /\ texts[e].event.body # texts[n].event.body
    /\ Cardinality(TextOnlyCalls(e)) = 1
    /\ CombinedCalls(e) = {}
    /\ Cardinality(CombinedCalls(n)) = 1
    /\ TextOnlyCalls(n) = {}


\* This step is the handleImage / handleFile call of media event j.
MediaCallStarts(j) == mpc[j] = "idle" /\ mpc'[j] # "idle"

(***************************************************************************)
(* C18: handleImage and handleFile never wait on the aggregation timer:    *)
(* the claim is decided at the moment of the call from the store as it is  *)
(* then, the handler is invoked in the same step, and the call completes   *)
(* as soon as the handler completes, whether or not any timer is still     *)
(* armed.  With handlers that terminate and no assumption that any timer   *)
(* ever fires, every handleImage / handleFile call eventually completes.   *)
(***************************************************************************)
C18_MediaNeverWaitsOnTimer ==
  /\ [][ \A j \in MediaIds :
           MediaCallStarts(j)
           => /\ mpc'[j] = "inHandler"
              /\ \E k \in Keys :
                   /\ MediaHandlerInvoked(k)
                   /\ LastCall(log', k).event.event_id = MediaEventId(j)
                   /\ IF WaitingEntry(k)
                      THEN k \notin DOMAIN pending' /\ wins'[pending[k]] = <<"media">>
                      ELSE pending' = pending /\ wins' = wins ]_vars
  /\ <>[](\A j \in MediaIds : mpc[j] # "inHandler")

\* A handleImage / handleFile call that found nothing to claim has returned
\* while the timer of a text of another key is still armed.
C18_Witness ==
  \E j \in ArrivedMedia, m \in ArrivedTexts :
    /\ mpc[j] = "returned"
    /\ timer[m] = "armed"
    /\ hpc[m] = "suspended"
    /\ \E k \in Keys : \E i \in DOMAIN log[k] :
         /\ log[k][i].kind = "media"
         /\ log[k][i].event.event_id = MediaEventId(j)
         /\ log[k][i].text = Undefined
         /\ k # KeyOf(m)


(***************************************************************************)
(* C19: an error raised by the caller-supplied media handler inside        *)
(* handleImage or handleFile is caught at that invocation and suppressed:  *)
(* handleImage/handleFile complete without raising it to their caller, so  *)
(* no handleImage / handleFile call ever ends rejected.                    *)
(***************************************************************************)
C19_MediaHandlerErrorSuppressed ==
  \A j \in MediaIds : mpc[j] # "rejected"


(***************************************************************************)
(* C20: a handleText call whose entry was finalized by a media claim, by   *)
(* supersession or by cleanup returns normally without error and without   *)
(* itself invoking onTextOnly; an error of onTextOnly is raised to a       *)
(* handleText caller only when that caller's own timeout claim succeeded   *)
(* and its own onTextOnly then failed.                                     *)
(***************************************************************************)
C20_OnlyOwnCallbackErrorPropagates ==
  /\ \A m \in ArrivedTexts :
       Finalizers(m) \cap {"media", "supersede", "cleanup"} # {}
       => /\ hpc[m] \in {"resumedFalse", "returned"}
          /\ timer[m] = "cleared"
          /\ ("supersede" \notin Finalizers(m) => TextOnlyCalls(m) = {})
  /\ \A m \in ArrivedTexts :
       hpc[m] = "rejected"
       => /\ timer[m] = "firedClaimed"
          /\ wins[m] = <<"timeout">>
          /\ DeliveredTextOnlyOnce(m)


\* Entry m has left WAITING_FOR_MEDIA or has been removed from the store.
Finalized(m) == entryState[m] \in {COMBINED_WITH_MEDIA, PROCESSED_AS_TEXT} \/ wins[m] # << >>

(***************************************************************************)
(* C21: whenever an entry leaves WAITING_FOR_MEDIA for any reason (media   *)
(* claim, timeout claim, supersession, cleanup), no timer for that entry   *)
(* remains armed afterwards, so no timer ever fires for an entry that has  *)
(* already been finalized or removed.                                      *)
(***************************************************************************)
C21_NoTimerAfterFinalization ==
  /\ [](\A m \in ArrivedTexts : Finalized(m) => timer[m] # "armed")
  /\ [][ \A m \in TextIds : TimerCallbackRan(m) => ~Finalized(m) ]_vars


(***************************************************************************)
(* C22: in handleImage and handleFile the handler is invoked with a text   *)
(* argument if and only if the claim succeeded, and then the argument      *)
(* equals the buffered body - for every buffered body, including the empty *)
(* string; a successful claim never ends with the handler being invoked    *)
(* without the text.                                                       *)
(***************************************************************************)
C22_TextGivenIffClaimed ==
  [][ \A k \in Keys :
        MediaHandlerInvoked(k)
        => /\ (LastCall(log', k).text # Undefined) <=> claimForMedia(k).result.success
           /\ claimForMedia(k).result.success
              => LastCall(log', k).text = claimForMedia(k).result.textContent ]_vars


\* Text m has been delivered: a text-only callback was invoked with its
\* event, or a media handler was invoked with its body as text.
Delivered(m) ==
  \/ TextOnlyCalls(m) # {}
  \/ \E ki \in LogPositions :
       /\ ki[1] = KeyOf(m)
       /\ log[ki[1]][ki[2]].kind = "media"
       /\ log[ki[1]][ki[2]].text = Some(texts[m].event.body)

(***************************************************************************)
(* C23: no text is lost: when only handleText, handleImage and handleFile  *)
(* are used and cleanup() is never called, every text event given to       *)
(* handleText is eventually delivered - either a text-only callback is     *)
(* invoked with it or a media handler is invoked with its body as text -   *)
(* under fairness of timers.  (A delivered text stays delivered, so: from  *)
(* some point on every text given so far has been delivered.)              *)
(***************************************************************************)
C23_NoTextLost ==
  <>[](\A m \in ArrivedTexts : Delivered(m))


(***************************************************************************)
(* C24: a timer scheduled for text M never finalizes an entry that holds a *)
(* different text M': in every execution (including ones where             *)
(* claimForTimeout or claimForMedia is also called directly and a newer    *)
(* text then occupies the key), the firing of M's timer removes an entry   *)
(* or triggers a text-only delivery only if the entry then in the store is *)
(* M's own.                                                                *)
(***************************************************************************)
C24_TimerFinalizesOnlyOwnEntry ==
  [][ \A m \in TextIds :
        TimerCallbackRan(m)
        => /\ \A n \in TextIds \ {m} :
                /\ entryState'[n] = entryState[n]
                /\ wins'[n] = wins[n]
                /\ hpc'[n] = hpc[n]
                /\ timer'[n] = timer[n]
           /\ (pending' # pending \/ hpc'[m] = "resumedTrue" \/ wins'[m] # wins[m])
              => /\ KeyOf(m) \in DOMAIN pending /\ pending[KeyOf(m)] = m
                 /\ pending' = RemoveKey(pending, KeyOf(m))
                 /\ hpc'[m] = "resumedTrue" ]_vars

\* Text m was claimed by a direct claimForTimeout call, a newer text then
\* took the key, and m's timer has fired without touching the newer entry.
C24_Witness ==
  \E m, n \in ArrivedTexts :
    /\ m < n /\ KeyOf(m) = KeyOf(n)
    /\ wins[m] = <<"timeout">>
    /\ timer[m] = "firedFailed"
    /\ TextOnlyCalls(m) = {}
    /\ KeyOf(n) \in DOMAIN pending /\ pending[KeyOf(n)] = n
    /\ entryState[n] = WAITING_FOR_MEDIA
    /\ timer[n] = "armed"
    /\ wins[n] = << >>


\* This step invoked onTextOnly from text m's own handleText call.
OwnTextOnlyInvoked(m) == hpc[m] = "resumedTrue" /\ hpc'[m] = "inCallback"

(***************************************************************************)
(* C25: removal and release precede the callback: when a media claim       *)
(* succeeds the entry is removed and the text's handleText caller is       *)
(* released before the media handler is invoked, and when a timeout claim  *)
(* succeeds the entry is removed before onTextOnly is invoked; so a        *)
(* callback that fails or never completes cannot keep an entry in the      *)
(* store or keep another caller suspended: no entry in the store has a     *)
(* callback running, and every suspended caller still has its timer armed. *)
(***************************************************************************)
C25_RemovalPrecedesCallback ==
  /\ [][ \A k \in Keys :
           (MediaHandlerInvoked(k) /\ WaitingEntry(k))
           => /\ k \notin DOMAIN pending'
              /\ pending[k] \notin PendingEntries'
              /\ hpc'[pending[k]] # "suspended"
              /\ timer'[pending[k]] # "armed" ]_vars
  /\ [][ \A m \in TextIds :
           OwnTextOnlyInvoked(m)
           => /\ m \notin PendingEntries
              /\ entryState[m] = PROCESSED_AS_TEXT
              /\ UNCHANGED <<pending, entryState, timer, wins>> ]_vars
  /\ [](\A m \in ArrivedTexts :
          /\ m \in PendingEntries => (hpc[m] = "suspended" /\ TextOnlyCalls(m) = {})
          /\ hpc[m] = "inCallback" => m \notin PendingEntries
          /\ hpc[m] = "suspended" => timer[m] = "armed")

\* A media handler that received a text is still running (it may never
\* complete), the text's entry is gone and its caller has returned, and a
\* text of another key has since been delivered by its own timer.
C25_Witness ==
  \E j \in ArrivedMedia, e, n \in ArrivedTexts :
    /\ mpc[j] = "inHandler"
    /\ \E ki \in CombinedCalls(e) : log[ki[1]][ki[2]].event.event_id = MediaEventId(j)
    /\ wins[e] = <<"media">>
    /\ hpc[e] = "returned"
    /\ e \notin PendingEntries
    /\ KeyOf(n) # KeyOf(e)
    /\ timer[n] = "firedClaimed"
    /\ hpc[n] = "inCallback"


\* This step superseded entry e.
SupersededNow(e) == "supersede" \in Finalizers(e)' /\ "supersede" \notin Finalizers(e)

(***************************************************************************)
(* C26: a superseding handleText removes the old entry and inserts the new *)
(* one within one scheduler turn: no timer firing and no handleImage /     *)
(* handleFile claim can be interleaved between the removal and the         *)
(* insertion, so a media event for the key always sees either the old      *)
(* entry or the new one, never an empty slot in between.  Every step that  *)
(* supersedes an entry leaves a newer waiting entry under the same key.    *)
(***************************************************************************)
C26_SupersessionIsAtomic ==
  [][ \A e \in TextIds :
        SupersededNow(e)
        => LET k == KeyOf(e) IN
           /\ pending[k] = e
           /\ k \in DOMAIN pending'
           /\ pending'[k] > e
           /\ entryState'[pending'[k]] = WAITING_FOR_MEDIA
           /\ claimForMedia(k)'.result.success ]_vars


\* The handleText calls for key k that are still awaiting release.
AwaitingRelease(k) == { m \in UnresolvedTexts : KeyOf(m) = k }

(***************************************************************************)
(* C27: when only handleText, handleImage, handleFile and cleanup are      *)
(* used, in every reachable state the keys that have a pending entry are   *)
(* exactly the keys that have a handleText call still awaiting release,    *)
(* each such key has exactly one such call, and that call's event is the   *)
(* entry's event.                                                          *)
(***************************************************************************)
C27_EntriesMatchWaitingCallers ==
  /\ DOMAIN pending = { k \in Keys : AwaitingRelease(k) # {} }
  /\ \A k \in DOMAIN pending :
       /\ AwaitingRelease(k) = {pending[k]}
       /\ texts[pending[k]].event.event_id = TextEventId(pending[k])
       /\ getKey(texts[pending[k]].roomId, texts[pending[k]].event.sender) = k

\* Two keys each hold an entry whose caller is suspended, one of them after
\* a supersession whose superseded caller has returned.
C27_Witness ==
  /\ getPendingCount = 2
  /\ \A k \in DOMAIN pending : AwaitingRelease(k) = {pending[k]}
  /\ \E e \in ArrivedTexts : wins[e] = <<"supersede">> /\ hpc[e] = "returned"


(***************************************************************************)
(* C28: every entry that is in the store is in state WAITING_FOR_MEDIA:    *)
(* getState never returns COMBINED_WITH_MEDIA or PROCESSED_AS_TEXT, only   *)
(* WAITING_FOR_MEDIA or undefined, so the 'found but not in waiting state' *)
(* failure branch of the claim operations is never taken.                  *)
(***************************************************************************)
C28_StoredEntriesAreWaiting ==
  /\ \A k \in DOMAIN pending : entryState[pending[k]] = WAITING_FOR_MEDIA
  /\ \A p \in Pairs : getState(p[1], p[2]) \in {Some(WAITING_FOR_MEDIA), Undefined}
  /\ \A k \in DOMAIN pending :
       /\ claimForMedia(k).result.success
       /\ claimForTimeout(k, texts[pending[k]].event.event_id).result.success

\* One entry has ended COMBINED_WITH_MEDIA and one PROCESSED_AS_TEXT, both
\* out of the store, while getState reports a third as waiting.
C28_Witness ==
  \E a, b, c \in ArrivedTexts :
    /\ entryState[a] = COMBINED_WITH_MEDIA /\ a \notin PendingEntries
    /\ entryState[b] = PROCESSED_AS_TEXT /\ b \notin PendingEntries
    /\ c \in PendingEntries
    /\ getState(texts[c].roomId, texts[c].event.sender) = Some(WAITING_FOR_MEDIA)
    /\ \E p \in Pairs : getState(p[1], p[2]) = Undefined


(***************************************************************************)
(* C29: for each key, text-only callbacks are started in the arrival order *)
(* of their text events: if text A was given to handleText before text B   *)
(* on the same key and both are delivered text-only, A's callback is       *)
(* invoked before B's.                                                     *)
(***************************************************************************)
C29_TextOnlyInArrivalOrder ==
  \A a, b \in ArrivedTexts :
    (a < b /\ KeyOf(a) = KeyOf(b))
    => \A pa \in TextOnlyCalls(a), pb \in TextOnlyCalls(b) : pa[2] < pb[2]

\* Three texts of one key were all delivered text-only in arrival order:
\* the first by its own timer, the second at its supersession by the
\* third, the third by its own timer.
C29_Witness ==
  \E a, b, c \in ArrivedTexts :
    /\ a < b /\ b < c
    /\ KeyOf(a) = KeyOf(b) /\ KeyOf(b) = KeyOf(c)
    /\ wins[a] = <<"timeout">> /\ timer[a] = "firedClaimed"
    /\ wins[b] = <<"supersede">>
    /\ wins[c] = <<"timeout">> /\ timer[c] = "firedClaimed"
    /\ \E pa \in TextOnlyCalls(a), pb \in TextOnlyCalls(b), pc \in TextOnlyCalls(c) :
         pa[2] < pb[2] /\ pb[2] < pc[2]


(***************************************************************************)
(* C30: handleFile and handleImage are interchangeable with respect to the *)
(* aggregator: from the same state and for the same key, both make the     *)
(* same claim, leave the store, timers and released callers in the same    *)
(* state, and pass the same text argument to their handler.  A step is a   *)
(* handleImage call for a room and sender exactly if it is a handleFile    *)
(* call for them.                                                          *)
(***************************************************************************)
C30_FileAndImageInterchangeable ==
  [][ \A p \in Pairs : HandleImage(p[1], p[2]) <=> HandleFile(p[1], p[2]) ]_vars

\* A media call has claimed a waiting text and its handler got the body,
\* after an earlier media call for the same key was processed alone.
C30_Witness ==
  \E e \in ArrivedTexts : \E i, j \in DOMAIN log[KeyOf(e)] :
    /\ i < j
    /\ log[KeyOf(e)][i].kind = "media" /\ log[KeyOf(e)][i].text = Undefined
    /\ log[KeyOf(e)][j].kind = "media"
    /\ log[KeyOf(e)][j].text = Some(texts[e].event.body)
    /\ wins[e] = <<"media">>
    /\ hpc[e] = "resumedFalse"
    /\ timer[e] = "cleared"


(***************************************************************************)
(* IPC framing (src/src/ipc/protocol.ts).  Text is a sequence of code      *)
(* points, a buffer a sequence of bytes.                                   *)
(***************************************************************************)
\* Longest string value drawn for a message member.
MaxText == 2

\* The code points of the string literals of the source and of the error
\* messages drawn.
CodePoints(literal) ==
  CASE literal = "type" ->
       <<116, 121, 112, 101>>
    [] literal = "content" ->
       <<99, 111, 110, 116, 101, 110, 116>>
    [] literal = "proactive_message" ->
       <<112, 114, 111, 97, 99, 116, 105, 118, 101, 95, 109, 101, 115, 115, 97, 103,
         101>>
    [] literal = "null" ->
       <<110, 117, 108, 108>>
    [] literal = "error" ->
       <<101, 114, 114, 111, 114>>
    [] literal = "success" ->
       <<115, 117, 99, 99, 101, 115, 115>>
    [] literal = "message" ->
       <<109, 101, 115, 115, 97, 103, 101>>
    [] literal = "undefined" ->
       <<117, 110, 100, 101, 102, 105, 110, 101, 100>>
    [] literal = "Message sent" ->
       <<77, 101, 115, 115, 97, 103, 101, 32, 115, 101, 110, 116>>
    [] literal = "Unknown message type: " ->
       <<85, 110, 107, 110, 111, 119, 110, 32, 109, 101, 115, 115, 97, 103, 101, 32,
         116, 121, 112, 101, 58, 32>>
    [] literal = "Cannot read properties of null (reading 'type')" ->
       <<67, 97, 110, 110, 111, 116, 32, 114, 101, 97, 100, 32, 112, 114, 111, 112,
         101, 114, 116, 105, 101, 115, 32, 111, 102, 32, 110, 117, 108, 108, 32, 40,
         114, 101, 97, 100, 105, 110, 103, 32, 39, 116, 121, 112, 101, 39, 41>>
    [] literal = "send failed" ->
       <<115, 101, 110, 100, 32, 102, 97, 105, 108, 101, 100>>
    [] literal = "Error: send failed" ->
       <<69, 114, 114, 111, 114, 58, 32, 115, 101, 110, 100, 32, 102, 97, 105, 108,
         101, 100>>
    [] literal = "timeout" ->
       <<116, 105, 109, 101, 111, 117, 116>>
    [] literal = "Connection closed before reading complete message" ->
       <<67, 111, 110, 110, 101, 99, 116, 105, 111, 110, 32, 99, 108, 111, 115, 101,
         100, 32, 98, 101, 102, 111, 114, 101, 32, 114, 101, 97, 100, 105, 110, 103,
         32, 99, 111, 109, 112, 108, 101, 116, 101, 32, 109, 101, 115, 115, 97, 103,
         101>>
    [] literal = "Broken pipe" ->
       <<66, 114, 111, 107, 101, 110, 32, 112, 105, 112, 101>>
    [] literal = "socket hang up" ->
       <<115, 111, 99, 107, 101, 116, 32, 104, 97, 110, 103, 32, 117, 112>>
    [] literal = "network" ->
       <<110, 101, 116, 119, 111, 114, 107>>
    [] literal = "Request Timeout" ->
       <<82, 101, 113, 117, 101, 115, 116, 32, 84, 105, 109, 101, 111, 117, 116>>
    [] literal = "Network is unreachable" ->
       <<78, 101, 116, 119, 111, 114, 107, 32, 105, 115, 32, 117, 110, 114, 101, 97,
         99, 104, 97, 98, 108, 101>>
    [] literal = "M_FORBIDDEN" ->
       <<77, 95, 70, 79, 82, 66, 73, 68, 68, 69, 78>>

\* Characters of the drawn strings: 'h', the two characters JSON escapes
\* ('"' and '\'), and one character of two and one of three UTF-8 bytes
\* (U+00E9, U+20AC).
Alphabet == {104, 34, 92, 233, 8364}

RECURSIVE SequencesOfLength(_, _)
SequencesOfLength(S, n) ==
  IF n = 0 THEN { << >> }
  ELSE { Append(s, x) : s \in SequencesOfLength(S, n - 1), x \in S }

Strings == UNION { SequencesOfLength(Alphabet, n) : n \in 0..MaxText }


\* The messages drawn: a proactive message with any content, an object with
\* any type, the empty object and null.
Messages ==
  { Object(<< <<CodePoints("type"), CodePoints("proactive_message")>>, <<CodePoints("content"), s>> >>) : s \in Strings }
    \cup { Object(<< <<CodePoints("type"), s>> >>) : s \in Strings }
    \cup { Object(<< >>), JsonNull }

\* Bytes that may follow a frame in a buffer: nothing, part of a next
\* header, a next header, a whole next frame ("{}"), other bytes.
Tails == { << >>, <<0>>, <<0, 0, 0, 9>>, <<0, 0, 0, 2, 123, 125>>, <<255, 255>> }

\* JSON.stringify of a string, without its quotes: '"', '\' and line feed
\* are escaped.
RECURSIVE Escaped(_)
Escaped(s) ==
  IF s = << >> THEN << >>
  ELSE (CASE Head(s) = 34 -> <<92, 34>>
          [] Head(s) = 92 -> <<92, 92>>
          [] Head(s) = 10 -> <<92, 110>>
          [] OTHER -> <<Head(s)>>) \o Escaped(Tail(s))

RECURSIVE StringifyMembers(_)
StringifyMembers(members) ==
  IF members = << >> THEN << >>
  ELSE <<34>> \o Escaped(Head(members)[1]) \o <<34, 58, 34>> \o Escaped(Head(members)[2]) \o <<34>>
         \o (IF Tail(members) = << >> THEN << >> ELSE <<44>> \o StringifyMembers(Tail(members)))

\* JSON.stringify(value)
JSONstringify(value) ==
  IF value.json = "null" THEN CodePoints("null")
  ELSE <<123>> \o StringifyMembers(value.members) \o <<125>>

\* The UTF-8 bytes of one code point below U+10000.
Utf8OfCodePoint(c) ==
  CASE c < 128 -> <<c>>
    [] c >= 128 /\ c < 2048 -> <<192 + (c \div 64), 128 + (c % 64)>>
    [] OTHER -> <<224 + (c \div 4096), 128 + ((c \div 64) % 64), 128 + (c % 64)>>

\* new TextEncoder().encode(text)
RECURSIVE TextEncode(_)
TextEncode(text) ==
  IF text = << >> THEN << >>
  ELSE Utf8OfCodePoint(Head(text)) \o TextEncode(Tail(text))

\* new TextDecoder().decode(bytes) from position i: well-formed sequences of
\* one, two and three bytes give their code point, any other byte U+FFFD.
RECURSIVE DecodeFrom(_, _)
DecodeFrom(bytes, i) ==
  IF i > Len(bytes) THEN << >>
  ELSE LET b == bytes[i]
           IsContinuation(c) == c >= 128 /\ c < 192
       IN
    CASE b < 128 -> <<b>> \o DecodeFrom(bytes, i + 1)
      [] b >= 194 /\ b < 224 /\ i + 1 <= Len(bytes) /\ IsContinuation(bytes[i + 1]) ->
           <<(b - 192) * 64 + (bytes[i + 1] - 128)>> \o DecodeFrom(bytes, i + 2)
      [] b >= 224 /\ b < 240 /\ i + 2 <= Len(bytes)
           /\ IsContinuation(bytes[i + 1]) /\ IsContinuation(bytes[i + 2])
           /\ (b = 224 => bytes[i + 1] >= 160) /\ (b = 237 => bytes[i + 1] < 160) ->
           <<(b - 224) * 4096 + (bytes[i + 1] - 128) * 64 + (bytes[i + 2] - 128)>>
             \o DecodeFrom(bytes, i + 3)
      [] OTHER -> <<65533>> \o DecodeFrom(bytes, i + 1)

\* A leading byte order mark is dropped.
TextDecode(bytes) ==
  IF Len(bytes) >= 3 /\ SubSeq(bytes, 1, 3) = <<239, 187, 191>>
  THEN DecodeFrom(bytes, 4)
  ELSE DecodeFrom(bytes, 1)

SyntaxError == [ok |-> FALSE]

\* The string literal that starts after the opening quote at position i - 1:
\* its value and the position after its closing quote.
RECURSIVE ScanString(_, _, _)
ScanString(text, i, acc) ==
  IF i > Len(text) THEN SyntaxError
  ELSE LET c == text[i] IN
    CASE c = 34 -> [ok |-> TRUE, value |-> acc, next |-> i + 1]
      [] c = 92 ->
           IF i + 1 > Len(text) THEN SyntaxError
           ELSE (CASE text[i + 1] = 34 -> ScanString(text, i + 2, Append(acc, 34))
                   [] text[i + 1] = 92 -> ScanString(text, i + 2, Append(acc, 92))
                   [] text[i + 1] = 110 -> ScanString(text, i + 2, Append(acc, 10))
                   [] OTHER -> SyntaxError)
      [] c < 32 -> SyntaxError
      [] OTHER -> ScanString(text, i + 1, Append(acc, c))

ParseString(text, i) ==
  IF i <= Len(text) /\ text[i] = 34 THEN ScanString(text, i + 1, << >>) ELSE SyntaxError

\* A repeated key keeps its first position and takes the last value.
SetMember(members, key, value) ==
  IF \E n \in DOMAIN members : members[n][1] = key
  THEN [n \in DOMAIN members |-> IF members[n][1] = key THEN <<key, value>> ELSE members[n]]
  ELSE Append(members, <<key, value>>)

\* The members of an object from position i (after '{' or ','), up to and
\* including the closing '}'.
RECURSIVE ParseMembers(_, _, _)
ParseMembers(text, i, acc) ==
  LET k == ParseString(text, i) IN
  IF ~k.ok THEN SyntaxError
  ELSE IF ~(k.next <= Len(text) /\ text[k.next] = 58) THEN SyntaxError
  ELSE LET v == ParseString(text, k.next + 1) IN
    IF ~v.ok THEN SyntaxError
    ELSE IF v.next > Len(text) THEN SyntaxError
    ELSE IF text[v.next] = 44 THEN ParseMembers(text, v.next + 1, SetMember(acc, k.value, v.value))
    ELSE IF text[v.next] = 125
      THEN [ok |-> TRUE, value |-> SetMember(acc, k.value, v.value), next |-> v.next + 1]
    ELSE SyntaxError

\* JSON.parse(text) for the texts of null and of objects with string
\* members, written without white space; any other text is reported as a
\* syntax error.
JSONparse(text) ==
  IF text = CodePoints("null") THEN [ok |-> TRUE, value |-> JsonNull]
  ELSE IF text = <<123, 125>> THEN [ok |-> TRUE, value |-> Object(<< >>)]
  ELSE IF Len(text) >= 1 /\ text[1] = 123
    THEN LET r == ParseMembers(text, 2, << >>) IN
         IF r.ok /\ r.next = Len(text) + 1 THEN [ok |-> TRUE, value |-> Object(r.value)]
         ELSE SyntaxError
  ELSE SyntaxError

\* DataView.setUint32(0, n, false): the four bytes of n modulo 2^32, most
\* significant first.
SetUint32(n) ==
  << (n \div 16777216) % 256, (n \div 65536) % 256, (n \div 256) % 256, n % 256 >>

\* DataView.getUint32(0, false)
GetUint32(b) == ((b[1] * 256 + b[2]) * 256 + b[3]) * 256 + b[4]

\* The length prefix counts the characters of the JSON text instead of the
\* bytes of its encoding.
encodeMessage_charLength(m) ==
  SetUint32(Len(JSONstringify(m))) \o TextEncode(JSONstringify(m))

encodeMessage(m) ==
  LET json == JSONstringify(m)
      data == TextEncode(json)
      length == SetUint32(Len(data))
  IN  length \o data

\* decodeMessage(buffer): null, { message, remaining }, or the error thrown
\* when the payload is not JSON.
decodeMessage(bytes) ==
  IF Len(bytes) < 4 THEN [returned |-> "null"]
  ELSE LET length == GetUint32(bytes) IN
    IF Len(bytes) < 4 + length THEN [returned |-> "null"]
    ELSE LET messageBytes == SubSeq(bytes, 5, 4 + length)
             remaining == SubSeq(bytes, 4 + length + 1, Len(bytes))
             parsed == JSONparse(TextDecode(messageBytes))
         IN  IF parsed.ok
             THEN [returned |-> "result", message |-> parsed.value, remaining |-> remaining]
             ELSE [returned |-> "throws"]

\* decodeMessage is given the frame of the message followed by the tail.
DecodeFrame ==
  /\ protocol.decoded = NotCalled
  /\ LET given == encodeMessage(protocol.message) \o protocol.tail IN
       protocol' = [protocol EXCEPT
                      !.decoded = [buffer |-> given, outcome |-> decodeMessage(given)]]
  /\ UNCHANGED <<aggregatorVars, server, client, retry, auth>>

\* decodeMessage is given the first n bytes of the frame, n less than its
\* length.
DecodePrefix(n) ==
  /\ protocol.prefixDecoded = NotCalled
  /\ LET given == SubSeq(encodeMessage(protocol.message), 1, n) IN
       protocol' = [protocol EXCEPT
                      !.prefixDecoded = [buffer |-> given, outcome |-> decodeMessage(given)]]
  /\ UNCHANGED <<aggregatorVars, server, client, retry, auth>>

ProtocolInit ==
  /\ AggregatorInit /\ ServerIdle /\ ClientIdle /\ RetryIdle /\ AuthIdle
  /\ protocol \in [message : Messages, tail : Tails,
                    decoded : {NotCalled}, prefixDecoded : {NotCalled}]

ProtocolNext ==
  \/ DecodeFrame
  \/ \E n \in 0..(Len(encodeMessage(protocol.message)) - 1) : DecodePrefix(n)

ProtocolSpec == ProtocolInit /\ [][ProtocolNext]_vars


(***************************************************************************)
(* C31: IPC framing round-trips.  For every message m and every byte tail, *)
(* decodeMessage(encodeMessage(m) followed by tail) returns m with         *)
(* remaining = tail; the frame is a 4-byte big-endian length followed by   *)
(* that many payload bytes; for every proper prefix of a frame             *)
(* decodeMessage returns null (and, returning no remaining, consumes       *)
(* nothing).                                                               *)
(***************************************************************************)
C31_FramingRoundTrips ==
  LET Frame == encodeMessage(protocol.message) IN
  /\ Len(Frame) >= 4
  /\ Frame[1] * 16777216 + Frame[2] * 65536 + Frame[3] * 256 + Frame[4] = Len(Frame) - 4
  /\ SubSeq(Frame, 5, Len(Frame)) = TextEncode(JSONstringify(protocol.message))
  /\ protocol.decoded # NotCalled =>
       /\ protocol.decoded.buffer = Frame \o protocol.tail
       /\ protocol.decoded.outcome = [returned |-> "result", message |-> protocol.message, remaining |-> protocol.tail]
  /\ protocol.prefixDecoded # NotCalled =>
       /\ Len(protocol.prefixDecoded.buffer) < Len(Frame)
       /\ protocol.prefixDecoded.buffer = SubSeq(Frame, 1, Len(protocol.prefixDecoded.buffer))
       /\ protocol.prefixDecoded.outcome = [returned |-> "null"]

\* A message whose text has escaped and multi-byte characters was decoded
\* back from its frame followed by a whole next frame, and decodeMessage
\* returned null for a prefix of that frame that holds the header and part
\* of the payload.
C31_Witness ==
  /\ protocol.message = Object(<< <<CodePoints("type"), CodePoints("proactive_message")>>, <<CodePoints("content"), <<34, 8364>> >> >>)
  /\ protocol.tail = <<0, 0, 0, 2, 123, 125>>
  /\ protocol.decoded.outcome = [returned |-> "result", message |-> protocol.message, remaining |-> protocol.tail]
  /\ Len(protocol.decoded.buffer) = 4 + 46 + Len(protocol.tail)
  /\ Len(protocol.prefixDecoded.buffer) = 20
  /\ protocol.prefixDecoded.outcome = [returned |-> "null"]


(***************************************************************************)
(* One connection of the IPC server (src/src/ipc/matrix-server.ts,         *)
(* handleConnection).  The peer writes the frames of `requests`; the       *)
(* readable stream delivers them in chunks of any sizes; the peer reads    *)
(* the responses, so that writes succeed.  One action is one turn of the   *)
(* loop between two awaits.                                                *)
(***************************************************************************)
\* Number of frames the peer sends on the connection.
MaxFrames == 2


\* The messages the peer sends: a proactive message, an object of another
\* type, an object without type, and null.
ServerMessages ==
  { Object(<< <<CodePoints("type"), CodePoints("proactive_message")>>, <<CodePoints("content"), <<233>> >> >>),
    Object(<< <<CodePoints("type"), <<104>> >> >>),
    Object(<< >>),
    JsonNull }

\* The frames of the messages, one after the other.
RECURSIVE Stream(_)
Stream(messages) ==
  IF messages = << >> THEN << >>
  ELSE encodeMessage(Head(messages)) \o Stream(Tail(messages))

\* message.type of an object
HasType(m) == \E n \in DOMAIN m.members : m.members[n][1] = CodePoints("type")
TypeOf(m) == m.members[CHOOSE n \in DOMAIN m.members : m.members[n][1] = CodePoints("type")][2]

\* `${message.type}`
TypeText(m) == IF HasType(m) THEN TypeOf(m) ELSE CodePoints("undefined")

IsProactive(m) == m.json = "object" /\ HasType(m) /\ TypeOf(m) = CodePoints("proactive_message")

\* { type: 'error', error: errorMessage }
ErrorResponse(errorMessage) ==
  Object(<< <<CodePoints("type"), CodePoints("error")>>, <<CodePoints("error"), errorMessage>> >>)

\* { type: 'success', message: 'Message sent' }
SuccessResponse ==
  Object(<< <<CodePoints("type"), CodePoints("success")>>, <<CodePoints("message"), CodePoints("Message sent")>> >>)

Returns(v) == [kind |-> "returns", value |-> v]
Throws(e) == [kind |-> "throws", value |-> e]

\* What this.messageHandler may do: return a success or an error response,
\* or fail with an Error.
HandlerOutcomes ==
  { Returns(SuccessResponse), Returns(ErrorResponse(CodePoints("Error: send failed"))), Throws(CodePoints("send failed")) }

\* The chunk replaces the buffer instead of being appended to it.
ReadChunk_replacesBuffer(n) ==
  /\ server.pc = "reading"
  /\ n \in 1..Len(server.unread)
  /\ server' = [server EXCEPT
                  !.buffer = SubSeq(server.unread, 1, n),
                  !.unread = SubSeq(server.unread, n + 1, Len(server.unread)),
                  !.pc = "decoding"]
  /\ UNCHANGED <<aggregatorVars, protocol, client, retry, auth>>

\* The next chunk of conn.readable, of n bytes, is appended to the buffer.
ReadChunk(n) ==
  /\ server.pc = "reading"
  /\ n \in 1..Len(server.unread)
  /\ server' = [server EXCEPT
                  !.buffer = server.buffer \o SubSeq(server.unread, 1, n),
                  !.unread = SubSeq(server.unread, n + 1, Len(server.unread)),
                  !.pc = "decoding"]
  /\ UNCHANGED <<aggregatorVars, protocol, client, retry, auth>>

\* One test of the while loop and, if a message is decoded, the loop body up
\* to its first await that suspends: the handler call for a proactive
\* message; otherwise up to the written response.
DecodeNext ==
  /\ server.pc = "decoding"
  /\ IF Len(server.buffer) < 4
     THEN server' = [server EXCEPT !.pc = "reading"]
     ELSE LET result == decodeMessage(server.buffer) IN
       CASE result.returned = "throws" -> server' = [server EXCEPT !.pc = "closed"]
         [] result.returned = "null" -> server' = [server EXCEPT !.pc = "reading"]
         [] OTHER ->
              IF result.message.json = "null"
              THEN server' = [server EXCEPT
                     !.buffer = result.remaining,
                     !.handled = Append(@, [message |-> result.message,
                                            outcome |-> [kind |-> "type error"]]),
                     !.written = Append(@, encodeMessage(
                        ErrorResponse(CodePoints("Cannot read properties of null (reading 'type')")))),
                     !.pc = "decoding"]
              ELSE IF IsProactive(result.message)
              THEN server' = [server EXCEPT
                     !.buffer = result.remaining,
                     !.handled = Append(@, [message |-> result.message,
                                            outcome |-> [kind |-> "awaiting"]]),
                     !.pc = "handling"]
              ELSE server' = [server EXCEPT
                     !.buffer = result.remaining,
                     !.handled = Append(@, [message |-> result.message,
                                            outcome |-> [kind |-> "unknown type"]]),
                     !.written = Append(@, encodeMessage(
                        ErrorResponse(CodePoints("Unknown message type: ")
                                        \o TypeText(result.message)))),
                     !.pc = "decoding"]
  /\ UNCHANGED <<aggregatorVars, protocol, client, retry, auth>>

\* this.messageHandler settles: its response is written, or sendError writes
\* the message of the error it failed with.
HandlerSettle(o) ==
  /\ server.pc = "handling"
  /\ server' = [server EXCEPT
                  !.handled[Len(server.handled)].outcome = o,
                  !.written = Append(@, encodeMessage(
                     IF o.kind = "returns" THEN o.value ELSE ErrorResponse(o.value))),
                  !.pc = "decoding"]
  /\ UNCHANGED <<aggregatorVars, protocol, client, retry, auth>>

\* The peer has closed its side: the for await loop ends and the connection
\* is closed.
EndOfStream ==
  /\ server.pc = "reading"
  /\ server.unread = << >>
  /\ server' = [server EXCEPT !.pc = "closed"]
  /\ UNCHANGED <<aggregatorVars, protocol, client, retry, auth>>

ServerInit ==
  /\ AggregatorInit /\ ProtocolIdle /\ ClientIdle /\ RetryIdle /\ AuthIdle
  /\ \E sent \in UNION { SequencesOfLength(ServerMessages, n) : n \in 1..MaxFrames } :
       server = [requests |-> sent, unread |-> Stream(sent), buffer |-> << >>,
                 handled |-> << >>, written |-> << >>, pc |-> "reading"]

ServerNext ==
  \/ \E n \in 1..Len(server.unread) : ReadChunk(n)
  \/ DecodeNext
  \/ \E o \in HandlerOutcomes : HandlerSettle(o)
  \/ EndOfStream

ServerSpec == ServerInit /\ [][ServerNext]_vars

(***************************************************************************)
(* C32: on one IPC server connection, however the stream of well-formed    *)
(* frames is split into chunks, every frame is handled exactly once in     *)
(* arrival order, exactly one response is written per frame in that order  *)
(* (an error response when the handler fails or the message type is        *)
(* unknown), and the bytes of an incomplete frame are kept until the rest  *)
(* arrives.                                                                *)
(***************************************************************************)
IsErrorResponse(r) ==
  /\ r.returned = "result"
  /\ r.remaining = << >>
  /\ r.message.json = "object"
  /\ HasType(r.message) /\ TypeOf(r.message) = CodePoints("error")

MaxRetriesDrawn == 4


\* An error object: its class and its message.
ErrorOf(class, text) == [name |-> class, message |-> text]

\* String.prototype.includes
Includes(text, part) ==
  \E i \in 1..(Len(text) - Len(part) + 1) : SubSeq(text, i, i + Len(part) - 1) = part

\* What one sendMessageOnce may do: resolve with the agent's response (of
\* any type, 'error' included), or reject: the socket file does not exist,
\* the connection is refused, the response does not come in time, the agent
\* closes the connection early, the write fails.
AgentResponses == { [type |-> "agent_response"], [type |-> "error"] }

ConnectionErrors ==
  { ErrorOf("NotFound", << >>), ErrorOf("ConnectionRefused", << >>),
    ErrorOf("Error", CodePoints("timeout")), ErrorOf("Error", CodePoints("Connection closed before reading complete message")),
    ErrorOf("BrokenPipe", CodePoints("Broken pipe")) }

ConnectionOutcomes ==
  { Returns(r) : r \in AgentResponses } \cup { Throws(e) : e \in ConnectionErrors }

\* Every failure is retried.
isRetriable_anyError(error) == error.name # "none"

isRetriable(error) == error.name = "ConnectionRefused" \/ error.name = "NotFound"

\* The code after the loop: the error response for lastError.
ErrorResponseFor(error) ==
  IF error.name = "NotFound"
    THEN [type |-> "error", error |-> "Could not connect to agent service after retries. It may not be running."]
  ELSE IF error.name = "ConnectionRefused"
    THEN [type |-> "error", error |-> "Agent service connection refused after retries. It may be restarting."]
  ELSE IF error.name # "none" /\ Includes(error.message, CodePoints("timeout"))
    THEN [type |-> "error", error |-> "Agent request timed out after 10 minutes. The agent may be overloaded or crashed."]
  ELSE [type |-> "error", error |-> "IPC error", lastError |-> error]

Returned(v) == [kind |-> "returned", value |-> v]

\* sendMessage is called: the loop makes its first sendMessageOnce call, or
\* makes none when maxRetries is 0.
SendMessage ==
  /\ client.pc = "idle"
  /\ IF 0 < client.maxRetries
     THEN client' = [client EXCEPT !.attempt = 0, !.pc = "attempting"]
     ELSE client' = [client EXCEPT !.attempt = 0, !.pc = "done",
                                   !.result = Returned(ErrorResponseFor(client.lastError))]
  /\ UNCHANGED <<aggregatorVars, protocol, server, retry, auth>>

\* The awaited sendMessageOnce settles with outcome o.
SendMessageOnceSettles(o) ==
  /\ client.pc = "attempting"
  /\ IF o.kind = "returns"
     THEN client' = [client EXCEPT !.connections = Append(@, o),
                                   !.result = Returned(o.value),
                                   !.pc = "done"]
     ELSE IF ~isRetriable(o.value)
     THEN client' = [client EXCEPT !.connections = Append(@, o),
                                   !.lastError = o.value,
                                   !.result = Returned(ErrorResponseFor(o.value)),
                                   !.pc = "done"]
     ELSE IF client.attempt < client.maxRetries - 1
     THEN client' = [client EXCEPT !.connections = Append(@, o),
                                   !.lastError = o.value,
                                   !.sleeps = Append(@, 100 * 4^client.attempt),
                                   !.pc = "sleeping"]
     ELSE IF client.attempt + 1 < client.maxRetries
     THEN client' = [client EXCEPT !.connections = Append(@, o),
                                   !.lastError = o.value,
                                   !.attempt = @ + 1,
                                   !.pc = "attempting"]
     ELSE client' = [client EXCEPT !.connections = Append(@, o),
                                   !.lastError = o.value,
                                   !.attempt = @ + 1,
                                   !.result = Returned(ErrorResponseFor(o.value)),
                                   !.pc = "done"]
  /\ UNCHANGED <<aggregatorVars, protocol, server, retry, auth>>

\* The sleep ends: the loop goes to its next iteration.
SleepEnds ==
  /\ client.pc = "sleeping"
  /\ IF client.attempt + 1 < client.maxRetries
     THEN client' = [client EXCEPT !.attempt = @ + 1, !.pc = "attempting"]
     ELSE client' = [client EXCEPT !.attempt = @ + 1, !.pc = "done",
                                   !.result = Returned(ErrorResponseFor(client.lastError))]
  /\ UNCHANGED <<aggregatorVars, protocol, server, retry, auth>>

ClientInit ==
  /\ AggregatorInit /\ ProtocolIdle /\ ServerIdle /\ RetryIdle /\ AuthIdle
  /\ \E n \in 0..MaxRetriesDrawn :
       client = [maxRetries |-> n, attempt |-> 0, lastError |-> NoError,
                 connections |-> << >>, sleeps |-> << >>, result |-> NoResult, pc |-> "idle"]

ClientNext ==
  \/ SendMessage
  \/ \E o \in ConnectionOutcomes : SendMessageOnceSettles(o)
  \/ SleepEnds

ClientSpec == ClientInit /\ [][ClientNext]_vars

(***************************************************************************)
(* C33: sendMessage never raises: for every sequence of connection         *)
(* outcomes it returns the agent's response or an error-typed response;    *)
(* it makes at most maxRetries connection attempts, retries only after a   *)
(* connection-refused or socket-not-found failure, and stops after the     *)
(* first attempt that fails in any other way.                              *)
(***************************************************************************)
C33_SendMessageNeverRaises ==
  LET IsRetriableFailure(o) ==
        o.kind = "throws" /\ o.value.name \in {"ConnectionRefused", "NotFound"}
  IN
  \* sendMessage returns, and only when it is done
  /\ client.result.kind \in {"none", "returned"}
  /\ client.result.kind = "returned" <=> client.pc = "done"
  \* what it returns is the agent's response or an error-typed response
  /\ client.pc = "done" =>
       IF client.connections # << >> /\ client.connections[Len(client.connections)].kind = "returns"
       THEN client.result.value = client.connections[Len(client.connections)].value
       ELSE client.result.value.type = "error"
  \* at most maxRetries attempts
  /\ Len(client.connections) <= client.maxRetries
  \* every attempt but the last failed with a retriable error
  /\ \A i \in 1..(Len(client.connections) - 1) : IsRetriableFailure(client.connections[i])
  \* after a response or any other failure no further attempt is made
  /\ (client.connections # << >> /\ ~IsRetriableFailure(client.connections[Len(client.connections)])) =>
       client.pc = "done"
  \* a sleep of 100ms, 400ms, ... before each further attempt
  /\ \A i \in DOMAIN client.sleeps : client.sleeps[i] = 100 * 4^(i - 1)
  /\ Len(client.sleeps) <= Len(client.connections)
  /\ (client.pc = "done" /\ client.connections # << >>) => Len(client.sleeps) = Len(client.connections) - 1

\* After a refused connection and a missing socket, each followed by a
\* sleep, the third attempt timed out and sendMessage returned the timeout
\* error response without another attempt.
C33_Witness ==
  /\ client.maxRetries = 3
  /\ client.pc = "done"
  /\ Len(client.connections) = 3
  /\ client.connections[1] = Throws(ErrorOf("ConnectionRefused", << >>))
  /\ client.connections[2] = Throws(ErrorOf("NotFound", << >>))
  /\ client.connections[3] = Throws(ErrorOf("Error", CodePoints("timeout")))
  /\ client.sleeps = <<100, 400>>
  /\ client.result.kind = "returned" /\ client.result.value.type = "error"


(***************************************************************************)
(* withRetry (src/src/matrix/client.ts).  One action is one turn between   *)
(* two awaits: the call up to the first operation(), the settling of an    *)
(* operation(), the end of a backoff wait.  Delays are in milliseconds.    *)
(***************************************************************************)
\* RETRY_CONFIG
maxAttempts == 3
baseDelayMs == 1000
maxDelayMs == 10000


\* String.prototype.toLowerCase for the letters A-Z
RECURSIVE ToLowerCase(_)
ToLowerCase(text) ==
  IF text = << >> THEN << >>
  ELSE <<IF Head(text) >= 65 /\ Head(text) <= 90 THEN Head(text) + 32 ELSE Head(text)>>
         \o ToLowerCase(Tail(text))

\* A thrown value: whether it is an Error, its code property and its message.
Thrown(isError, code, text) == [isError |-> isError, code |-> code, message |-> text]

\* What operation() may fail with: errors with one of the codes, errors
\* recognised by their message (in any letter case), another error, and a
\* value that is not an Error.
OperationErrors ==
  { Thrown(TRUE, "ESOCKETTIMEDOUT", << >>),
    Thrown(TRUE, "ECONNRESET", << >>),
    Thrown(TRUE, "", CodePoints("Request Timeout")),
    Thrown(TRUE, "", CodePoints("socket hang up")),
    Thrown(TRUE, "", CodePoints("Network is unreachable")),
    Thrown(TRUE, "", CodePoints("M_FORBIDDEN")),
    Thrown(FALSE, "", CodePoints("timeout")) }

OperationOutcomes == { Returns("$event") } \cup { Throws(e) : e \in OperationErrors }

isRetryableError(error) ==
  IF error.isError
  THEN LET text == ToLowerCase(error.message) IN
       \/ error.code = "ESOCKETTIMEDOUT"
       \/ error.code = "ETIMEDOUT"
       \/ error.code = "ECONNRESET"
       \/ error.code = "ECONNREFUSED"
       \/ Includes(text, CodePoints("timeout"))
       \/ Includes(text, CodePoints("socket hang up"))
       \/ Includes(text, CodePoints("network"))
  ELSE FALSE

\* Math.random() * 500, in whole milliseconds
Jitters == {0, 250, 499}

\* The base delay stays at baseDelayMs.
BackoffDelay_constantBase(n, jitter) ==
  IF baseDelayMs + jitter < maxDelayMs THEN baseDelayMs + jitter ELSE maxDelayMs

\* The delay after the failure of attempt n.
BackoffDelay(n, jitter) ==
  LET delay == baseDelayMs * 2^(n - 1) + jitter IN
  IF delay < maxDelayMs THEN delay ELSE maxDelayMs

RetryThrew(e) == [kind |-> "threw", value |-> e]

\* withRetry is called: the first operation() call is made.
WithRetry ==
  /\ retry.pc = "idle"
  /\ retry' = [retry EXCEPT !.attempt = 1, !.pc = "invoking"]
  /\ UNCHANGED <<aggregatorVars, protocol, server, client, auth>>

\* The awaited operation() settles with outcome o.
OperationSettles(o, jitter) ==
  /\ retry.pc = "invoking"
  /\ IF o.kind = "returns"
     THEN retry' = [retry EXCEPT !.invocations = Append(@, o),
                                 !.result = Returned(o.value),
                                 !.pc = "done"]
     ELSE IF ~isRetryableError(o.value) \/ retry.attempt = maxAttempts
     THEN retry' = [retry EXCEPT !.invocations = Append(@, o),
                                 !.result = RetryThrew(o.value),
                                 !.pc = "done"]
     ELSE retry' = [retry EXCEPT !.invocations = Append(@, o),
                                 !.waits = Append(@, BackoffDelay(retry.attempt, jitter)),
                                 !.pc = "waiting"]
  /\ UNCHANGED <<aggregatorVars, protocol, server, client, auth>>

\* The backoff wait ends: the loop goes to its next attempt.
WaitEnds ==
  /\ retry.pc = "waiting"
  /\ IF retry.attempt + 1 <= maxAttempts
     THEN retry' = [retry EXCEPT !.attempt = @ + 1, !.pc = "invoking"]
     ELSE retry' = [retry EXCEPT
                     !.attempt = @ + 1, !.pc = "done",
                     !.result = RetryThrew(retry.invocations[Len(retry.invocations)].value)]
  /\ UNCHANGED <<aggregatorVars, protocol, server, client, auth>>

RetryInit ==
  /\ AggregatorInit /\ ProtocolIdle /\ ServerIdle /\ ClientIdle /\ AuthIdle
  /\ retry = [attempt |-> 0, invocations |-> << >>, waits |-> << >>,
              result |-> NoResult, pc |-> "idle"]

RetryNext ==
  \/ WithRetry
  \/ \E o \in OperationOutcomes, jitter \in Jitters : OperationSettles(o, jitter)
  \/ WaitEnds

RetrySpec == RetryInit /\ [][RetryNext]_vars

MaxMembers == 3

\* The bot's own user id, the user meant to be authorized, and a third one.
UserIds == { "@bot:example.org", "@user:example.org", "@other:example.org" }

\* The user does not need to differ from the bot.
shouldProcessMessage_noSelfCheck(p) ==
  IF p.sender # p.authorizedUser THEN FALSE
  ELSE IF p.memberCount # 2 THEN FALSE
  ELSE TRUE

shouldProcessMessage(p) ==
  IF p.sender = p.botUserId THEN FALSE
  ELSE IF p.sender # p.authorizedUser THEN FALSE
  ELSE IF p.memberCount # 2 THEN FALSE
  ELSE TRUE

\* config is { userId, authorizedUser }
validateAuthorization(sender, roomMemberCount, config) ==
  IF sender = config.userId
    THEN [authorized |-> FALSE, reason |-> <<"self-message">>]
  ELSE IF sender # config.authorizedUser
    THEN [authorized |-> FALSE, reason |-> <<"unauthorized user: ", sender>>]
  ELSE IF roomMemberCount # 2
    THEN [authorized |-> FALSE, reason |-> <<"non-DM room (", roomMemberCount, " members)">>]
  ELSE [authorized |-> TRUE]

\* Both checks are applied to the same sender, bot, authorized user and
\* member count.
CheckAuthorization ==
  /\ auth.result = NoResult
  /\ auth' = [auth EXCEPT !.result =
       [kind |-> "checked",
        shouldProcess |-> shouldProcessMessage(auth.params),
        validated |-> validateAuthorization(auth.params.sender, auth.params.memberCount,
                        [userId |-> auth.params.botUserId,
                         authorizedUser |-> auth.params.authorizedUser])]]
  /\ UNCHANGED <<aggregatorVars, protocol, server, client, retry>>

AuthInit ==
  /\ AggregatorInit /\ ProtocolIdle /\ ServerIdle /\ ClientIdle /\ RetryIdle
  /\ \E p \in [sender : UserIds, botUserId : UserIds, authorizedUser : UserIds,
                 memberCount : 0..MaxMembers] :
       auth = [params |-> p, result |-> NoResult]

AuthSpec == AuthInit /\ [][CheckAuthorization]_vars

(***************************************************************************)
(* C35: a message is authorized if and only if its sender is not the bot   *)
(* itself, its sender equals the single configured authorized user, and    *)
(* the room has exactly 2 members; shouldProcessMessage and                *)
(* validateAuthorization(...).authorized agree on every input.             *)
(***************************************************************************)
C35_AuthorizedIff ==
  auth.result # NoResult =>
    /\ auth.result.shouldProcess <=>
         (/\ auth.params.sender # auth.params.botUserId
          /\ auth.params.sender = auth.params.authorizedUser
          /\ auth.params.memberCount = 2)
    /\ auth.result.validated.authorized <=> auth.result.shouldProcess

\* The authorized user writes in a room of two, and both checks accept.
C35_Witness ==
  /\ auth.params = [sender |-> "@user:example.org", botUserId |-> "@bot:example.org",
               authorizedUser |-> "@user:example.org", memberCount |-> 2]
  /\ auth.result.kind = "checked"
  /\ auth.result.shouldProcess
  /\ auth.result.validated = [authorized |-> TRUE]


(***************************************************************************)
(* C36: the composite key is injective: two different (roomId, senderId)   *)
(* pairs never map to the same key string, also when the identifiers       *)
(* contain ':', so two different pairs never share a pending entry: the    *)
(* entry stored for a text is found under the key of no pair other than    *)
(* the room and sender of that text.                                       *)
(***************************************************************************)
C36_KeyInjective ==
  \A k \in DOMAIN pending, q \in Pairs :
    getKey(q[1], q[2]) = k =>
      q = <<texts[pending[k]].roomId, texts[pending[k]].event.sender>>

=============================================================================
